---- MODULE Spec2Model ----
(***************************************************************************)
(* Model of mcp-context-server: the stdio transport loop (server.rs), the  *)
(* handshake gate, the method dispatcher (handlers/mod.rs), the tool       *)
(* handlers and their path resolver, and the two-tier error taxonomy       *)
(* (protocol/response.rs).                                                 *)
(*                                                                         *)
(* JSON values are tagged records: [t |-> "absent"] (key not present),     *)
(* [t |-> "null"], [t |-> "int", n |-> i], [t |-> "float"],                *)
(* [t |-> "str", s |-> "..."] (protocol strings), [t |-> "name", cs |-> q] *)
(* (a string kept as a sequence of characters, for cache names) and        *)
(* [t |-> "obj", ...] with one field per key.                              *)
(***************************************************************************)
EXTENDS Integers, Sequences, FiniteSets, TLC

VARIABLES
    initialized,  \* McpServer.initialized
    config,       \* McpServer.config: [cache_root, tool_timeout]
    fs,           \* the filesystem the handlers read (never written)
    pc,           \* position of run(): "read", "await", "respond", "exited"
    raw,          \* the frame read by this iteration (server.rs `raw`, `n`)
    req,          \* the parsed request of this iteration, or NoReq
    resp,         \* the response this iteration is about to write, or None
    obs,          \* what this iteration ran: route, dispatcher branch, tool, fs ops, worker
    stdout,       \* the lines written and flushed so far
    frames,       \* number of frames read so far
    afterInit,    \* the previous iteration dispatched an `initialize` request
    exit,         \* process exit status: "none" while running, "ok" (0), "fail" (1)
    fatal,        \* the error run() returned: "none", "read", "write"
    task,         \* the worker of this iteration's context.resolve call: "none",
                  \* "running" (spawned, raced against the timer), "returned",
                  \* "panic", "timeout"
    abandoned     \* workers still running whose call timed out (handle dropped)

vars ==
    <<initialized, config, fs, pc, raw, req, resp, obs, stdout, frames, afterInit, exit, fatal,
      task, abandoned>>

---------------------------------------------------------------------------
(* Bounds of the model *)

MaxFrames == 3

MaxNameLen == 3

---------------------------------------------------------------------------
(* JSON values and Option *)

None == [t |-> "None"]

Absent == [t |-> "absent"]

JNull == [t |-> "null"]

JInt(i) == [t |-> "int", n |-> i]

JFloat == [t |-> "float"]

JStr(x) == [t |-> "str", s |-> x]

JName(q) == [t |-> "name", cs |-> q]

\* serde: an Option<T> field is None when the key is absent or null
IsNoneJson(v) == v.t \in {"absent", "null"}

---------------------------------------------------------------------------
(* protocol/request.rs *)

Number(i) == [t |-> "Number", n |-> i]

Str(x) == [t |-> "Str", s |-> x]

\* #[serde(untagged)] enum RpcId { Number(i64), Str(String) } under Option:
\* [ok, id]; a float, bool, object ... matches no variant and fails.
DeserializeId(v) ==
    CASE IsNoneJson(v) -> [ok |-> TRUE, id |-> None]
      [] v.t = "int"   -> [ok |-> TRUE, id |-> Number(v.n)]
      [] v.t = "str"   -> [ok |-> TRUE, id |-> Str(v.s)]
      [] OTHER         -> [ok |-> FALSE, id |-> None]

NoReq == [jsonrpc |-> "", id |-> None, method |-> "", params |-> Absent]

\* serde_json::from_str::<JsonRpcRequest>(trimmed): jsonrpc and method are
\* required strings, id is Option<RpcId>, params is Option<Value>.
ParseRequest(text) ==
    IF text.t # "obj" THEN [ok |-> FALSE, req |-> NoReq]
    ELSE IF text.jsonrpc.t # "str" \/ text.method.t # "str" \/ ~DeserializeId(text.id).ok
    THEN [ok |-> FALSE, req |-> NoReq]
    ELSE [ok |-> TRUE,
          req |-> [jsonrpc |-> text.jsonrpc.s,
                   id |-> DeserializeId(text.id).id,
                   method |-> text.method.s,
                   params |-> IF IsNoneJson(text.params) THEN Absent ELSE text.params]]

\* ToolCallParams { name: String, arguments: Option<Value> }
DeserializeToolCallParams(v) ==
    IF v.t # "obj" THEN [ok |-> FALSE, name |-> "", arguments |-> Absent]
    ELSE IF v.name.t # "str" THEN [ok |-> FALSE, name |-> "", arguments |-> Absent]
    ELSE [ok |-> TRUE, name |-> v.name.s,
          arguments |-> IF IsNoneJson(v.arguments) THEN Absent ELSE v.arguments]

NoArgs == [cache |-> <<>>, query |-> "", budget |-> 0]

\* ResolveContextParams { cache: String, query: String, budget: i64 }
DeserializeResolveParams(v) ==
    IF v.t # "obj" THEN [ok |-> FALSE, p |-> NoArgs]
    ELSE IF v.cache.t # "name" \/ v.query.t # "str" \/ v.budget.t # "int"
    THEN [ok |-> FALSE, p |-> NoArgs]
    ELSE [ok |-> TRUE, p |-> [cache |-> v.cache.cs, query |-> v.query.s, budget |-> v.budget.n]]

\* mutant: a missing or ill-typed cache defaults to the empty name
DeserializeInspectParams_Lenient(v) ==
    IF v.t # "obj" THEN [ok |-> FALSE, p |-> NoArgs]
    ELSE IF v.cache.t # "name" THEN [ok |-> TRUE, p |-> NoArgs]
    ELSE [ok |-> TRUE, p |-> [cache |-> v.cache.cs, query |-> "", budget |-> 0]]

\* InspectCacheParams { cache: String }; unknown keys are ignored
DeserializeInspectParams(v) ==
    IF v.t # "obj" THEN [ok |-> FALSE, p |-> NoArgs]
    ELSE IF v.cache.t # "name" THEN [ok |-> FALSE, p |-> NoArgs]
    ELSE [ok |-> TRUE, p |-> [cache |-> v.cache.cs, query |-> "", budget |-> 0]]

---------------------------------------------------------------------------
(* protocol/response.rs: JSON-RPC layer *)

Some(v) == [t |-> "Some", v |-> v]

JsonRpcError(code, message) == [code |-> code, message |-> message, data |-> None]

\* mutant: the parse error carries the invalid-request code
parse_error_WrongCode == JsonRpcError(-32600, <<"Parse error">>)

parse_error == JsonRpcError(-32700, <<"Parse error">>)

invalid_request == JsonRpcError(-32600, <<"Invalid Request">>)

invalid_request_with(detail) == JsonRpcError(-32600, detail)

\* mutant: an unknown method is reported as an invalid request
method_not_found_WrongCode(method) == JsonRpcError(-32600, <<"Method not found: ", method>>)

method_not_found(method) == JsonRpcError(-32601, <<"Method not found: ", method>>)

\* mutant: invalid params are reported as an invalid request
invalid_params_WrongCode(detail) == JsonRpcError(-32600, detail)

invalid_params(detail) == JsonRpcError(-32602, detail)

\* JsonRpcResponse::success
success(id, result) ==
    [jsonrpc |-> "2.0", id |-> id, result |-> Some(result), error |-> None]

\* mutant: error responses lose the request id
error_DropsId(id, err) ==
    [jsonrpc |-> "2.0", id |-> None, result |-> None, error |-> Some(err)]

\* JsonRpcResponse::error
error(id, err) ==
    [jsonrpc |-> "2.0", id |-> id, result |-> None, error |-> Some(err)]

\* mutant: no skip_serializing_if, None fields are written as null
to_string_NoSkip(r) ==
    [keys |-> {"jsonrpc", "id", "result", "error"},
     id |-> r.id,
     code |-> IF r.error = None THEN 0 ELSE r.error.v.code]

\* serde_json::to_string(resp): id, result and error are skipped when None
to_string(r) ==
    [keys |-> {"jsonrpc"}
              \cup (IF r.id = None THEN {} ELSE {"id"})
              \cup (IF r.result = None THEN {} ELSE {"result"})
              \cup (IF r.error = None THEN {} ELSE {"error"}),
     id |-> r.id,
     code |-> IF r.error = None THEN 0 ELSE r.error.v.code]

---------------------------------------------------------------------------
(* protocol/response.rs: tool results and the domain error taxonomy *)

ToolText(text) ==
    [k |-> "tool", content |-> <<[type |-> "text", text |-> text]>>, isError |-> FALSE]

ToolError(text) ==
    [k |-> "tool", content |-> <<[type |-> "text", text |-> text]>>, isError |-> TRUE]

McpErrorCodes ==
    {"cache_missing", "cache_invalid", "invalid_query", "invalid_budget",
     "io_error", "internal_error"}

\* mutant: an I/O error is mapped to the invalid-params code
json_rpc_code_IoIsInvalidParams(code) ==
    CASE code \in {"cache_missing", "cache_invalid"} -> -32602
      [] code \in {"invalid_query", "invalid_budget"} -> -32602
      [] code = "io_error"                            -> -32602
      [] code = "internal_error"                      -> -32603

json_rpc_code(code) ==
    CASE code \in {"cache_missing", "cache_invalid"} -> -32602
      [] code \in {"invalid_query", "invalid_budget"} -> -32602
      [] code \in {"io_error", "internal_error"}      -> -32603

McpErrorResponse(code, message) == [error |-> [code |-> code, message |-> message]]

canonical(code) ==
    McpErrorResponse(code,
        CASE code = "cache_missing"  -> "Cache does not exist"
          [] code = "cache_invalid"  -> "Cache exists but is invalid"
          [] code = "invalid_query"  -> "Query is invalid"
          [] code = "invalid_budget" -> "Budget is invalid"
          [] code = "io_error"       -> "I/O error occurred"
          [] code = "internal_error" -> "Internal error")

\* impl From<McpErrorResponse> for JsonRpcError
McpToJsonRpcError(mcp) ==
    [code |-> json_rpc_code(mcp.error.code),
     message |-> <<mcp.error.message>>,
     data |-> Some(mcp)]

\* impl From<McpErrorResponse> for ToolResult: the serialized error plus "\n"
McpToToolResult(mcp) == ToolError([k |-> "mcp_error", json |-> mcp, newline |-> TRUE])

---------------------------------------------------------------------------
(* The filesystem seen through std::fs and std::path.                      *)
(* A path is a sequence of components, a component a sequence of           *)
(* characters; <<>> is "/". fs maps each existing path to its node.        *)

Alphabet == {"a", "l", ".", "/", "\\"}

MANIFEST == <<"manifest.json">>

NoData == [json |-> FALSE, version |-> "absent", count |-> -1, core |-> FALSE]

Dir == [type |-> "dir", target |-> <<>>, size |-> 0, data |-> NoData, perm |-> TRUE, list |-> TRUE]

File(size, data) ==
    [type |-> "file", target |-> <<>>, size |-> size, data |-> data, perm |-> TRUE, list |-> TRUE]

Symlink(target) ==
    [type |-> "symlink", target |-> target, size |-> 0, data |-> NoData, perm |-> TRUE, list |-> TRUE]

Locked(node) == [node EXCEPT !.perm = FALSE]

\* a directory that can be searched but not enumerated (mode 0311)
SearchOnly(node) == [node EXCEPT !.list = FALSE]

\* the content of a manifest file: whether it is JSON, its cache_version
\* ("str", "absent", "other"), its document_count (a u64, or -1 when absent or
\* not a u64), and whether it deserializes as context_core's CacheManifest
Manifest(json, version, count, core) ==
    [json |-> json, version |-> version, count |-> count, core |-> core]

IsPrefix(p, q) == Len(p) <= Len(q) /\ SubSeq(q, 1, Len(p)) = p

Parent(p) == IF p = <<>> THEN <<>> ELSE SubSeq(p, 1, Len(p) - 1)

Children(f, d) == {p \in DOMAIN f : Len(p) = Len(d) + 1 /\ IsPrefix(d, p)}

\* str::split('/') as the OS sees a path string: components between slashes
RECURSIVE Split(_)
Split(s) ==
    IF s = <<>> THEN << <<>> >>
    ELSE IF Head(s) = "/" THEN << <<>> >> \o Split(Tail(s))
    ELSE LET r == Split(Tail(s)) IN << <<Head(s)>> \o Head(r) >> \o Tail(r)

\* Path::join: an absolute argument replaces the base
Join(base, name) ==
    IF name # <<>> /\ Head(name) = "/" THEN Split(name) ELSE base \o Split(name)

FsOk(p) == [ok |-> TRUE, path |-> p, err |-> ""]

FsErr(e) == [ok |-> FALSE, path |-> <<>>, err |-> e]

SymlinkFuel == 2

\* realpath(3): walk the components from `cur` (a resolved directory or file),
\* following symlinks, at most `fuel` of them
RECURSIVE Walk(_, _, _, _)
Walk(f, cur, rest, fuel) ==
    IF rest = <<>> THEN FsOk(cur)
    ELSE IF cur # <<>> /\ f[cur].type # "dir" THEN FsErr("NotADirectory")
    ELSE IF cur # <<>> /\ ~f[cur].perm THEN FsErr("PermissionDenied")
    ELSE LET c == Head(rest)
             t == Tail(rest)
             next == Append(cur, c)
         IN CASE c = <<>> \/ c = <<".">> -> Walk(f, cur, t, fuel)
              [] c = <<".", ".">>        -> Walk(f, Parent(cur), t, fuel)
              [] OTHER ->
                    IF next \notin DOMAIN f THEN FsErr("NotFound")
                    ELSE IF f[next].type = "symlink"
                    THEN IF fuel = 0 THEN FsErr("FilesystemLoop")
                         ELSE Walk(f, <<>>, f[next].target \o t, fuel - 1)
                    ELSE Walk(f, next, t, fuel)

\* Path::canonicalize
Canonicalize(f, p) == Walk(f, <<>>, p, SymlinkFuel)

\* Path::is_dir: metadata following symlinks; any error is false
IsDir(f, p) ==
    LET Metadata(c) == c.ok /\ (c.path = <<>> \/ f[c.path].type = "dir")
    IN  Metadata(Canonicalize(f, p))

\* std::fs::symlink_metadata: the node itself, the last component not followed
SymlinkMetadata(f, p) ==
    LET Lstat(d) ==
            IF ~d.ok THEN d
            ELSE IF d.path # <<>> /\ f[d.path].type # "dir" THEN FsErr("NotADirectory")
            ELSE IF d.path # <<>> /\ ~f[d.path].perm THEN FsErr("PermissionDenied")
            ELSE IF Append(d.path, p[Len(p)]) \notin DOMAIN f THEN FsErr("NotFound")
            ELSE FsOk(Append(d.path, p[Len(p)]))
    IN  Lstat(Canonicalize(f, Parent(p)))

\* std::fs::File::open for reading: follows symlinks, needs read permission
Open(f, p) ==
    LET OpenAt(c) ==
            IF ~c.ok THEN c
            ELSE IF c.path # <<>> /\ ~f[c.path].perm THEN FsErr("PermissionDenied")
            ELSE c
    IN  OpenAt(Canonicalize(f, p))

\* std::fs::read_dir: the entries of a directory (through symlinks)
ReadDir(f, p) ==
    LET OpenDirAt(c) ==
            IF ~c.ok THEN c
            ELSE IF c.path # <<>> /\ f[c.path].type # "dir" THEN FsErr("NotADirectory")
            ELSE IF c.path # <<>> /\ ~f[c.path].perm THEN FsErr("PermissionDenied")
            ELSE IF c.path # <<>> /\ ~f[c.path].list THEN FsErr("PermissionDenied")
            ELSE c
    IN  OpenDirAt(Canonicalize(f, p))

Op(name, p) == [op |-> name, path |-> p]

---------------------------------------------------------------------------
(* handlers/resolve_context.rs and handlers/inspect_cache.rs: path resolver *)
(* Results carry `ops`, the filesystem operations performed, in order.      *)

\* str::contains("..")
ContainsDotDot(name) ==
    \E i \in 1..(Len(name) - 1) : name[i] = "." /\ name[i + 1] = "."

\* the name check of resolve_cache_path
NameRejected(name) ==
    \/ ContainsDotDot(name)
    \/ (name # <<>> /\ Head(name) = "/")
    \/ (name # <<>> /\ Head(name) = "\\")

\* mutant: the resolver words its own message
ResolveErr_OwnMessage(code, ops) ==
    [ok |-> FALSE, path |-> <<>>, err |-> McpErrorResponse(code, "Cache path rejected"), ops |-> ops]

ResolveErr(code, ops) == [ok |-> FALSE, path |-> <<>>, err |-> canonical(code), ops |-> ops]

\* mutant: a candidate outside the root is reported as an invalid cache
ResolveChecked_RevealsEscape(f, cache_root, cache_name) ==
    LET Contained(candidate, canon, root_canonical) ==
            LET ops1 == <<Op("join", candidate), Op("canonicalize", candidate)>>
                ops2 == Append(ops1, Op("canonicalize", cache_root))
                ops3 == Append(ops2, Op("is_dir", canon.path))
            IN  IF ~canon.ok THEN ResolveErr("cache_missing", ops1)
                ELSE IF ~root_canonical.ok THEN ResolveErr("io_error", ops2)
                ELSE IF ~IsPrefix(root_canonical.path, canon.path)
                THEN ResolveErr("cache_invalid", ops2)
                ELSE IF ~IsDir(f, canon.path) THEN ResolveErr("cache_missing", ops3)
                ELSE [ok |-> TRUE, path |-> canon.path, err |-> canonical("cache_missing"),
                      ops |-> ops3]
        Candidate(candidate) ==
            Contained(candidate, Canonicalize(f, candidate), Canonicalize(f, cache_root))
    IN  Candidate(Join(cache_root, cache_name))

\* the steps after the name check, shared text of both resolvers
ResolveChecked(f, cache_root, cache_name) ==
    LET Contained(candidate, canon, root_canonical) ==
            LET ops1 == <<Op("join", candidate), Op("canonicalize", candidate)>>
                ops2 == Append(ops1, Op("canonicalize", cache_root))
                ops3 == Append(ops2, Op("is_dir", canon.path))
            IN  IF ~canon.ok THEN ResolveErr("cache_missing", ops1)
                ELSE IF ~root_canonical.ok THEN ResolveErr("io_error", ops2)
                ELSE IF ~IsPrefix(root_canonical.path, canon.path)
                THEN ResolveErr("cache_missing", ops2)
                ELSE IF ~IsDir(f, canon.path) THEN ResolveErr("cache_missing", ops3)
                ELSE [ok |-> TRUE, path |-> canon.path, err |-> canonical("cache_missing"),
                      ops |-> ops3]
        Candidate(candidate) ==
            Contained(candidate, Canonicalize(f, candidate), Canonicalize(f, cache_root))
    IN  Candidate(Join(cache_root, cache_name))

\* mutant: the name check is left out
resolve_cache_path_NoNameCheck(f, cache_root, cache_name) ==
    ResolveChecked(f, cache_root, cache_name)

\* resolve_context::resolve_cache_path
resolve_cache_path(f, cache_root, cache_name) ==
    IF NameRejected(cache_name) THEN ResolveErr("cache_missing", <<>>)
    ELSE ResolveChecked(f, cache_root, cache_name)

\* mutant: the copy of the resolver in inspect_cache.rs reports a candidate
\* outside the root as an invalid cache
inspect_resolve_cache_path_RevealsEscape(f, cache_root, cache_name) ==
    IF NameRejected(cache_name) THEN ResolveErr("cache_missing", <<>>)
    ELSE ResolveChecked_RevealsEscape(f, cache_root, cache_name)

\* inspect_cache::resolve_cache_path
inspect_resolve_cache_path(f, cache_root, cache_name) ==
    IF NameRejected(cache_name) THEN ResolveErr("cache_missing", <<>>)
    ELSE ResolveChecked(f, cache_root, cache_name)

---------------------------------------------------------------------------
(* handlers/inspect_cache.rs *)

\* mutant: the size of what a symlink leads to is counted (fs::metadata)
RECURSIVE SumSizes_FollowsSymlinks(_, _)
SumSizes_FollowsSymlinks(f, ps) ==
    IF ps = {} THEN 0
    ELSE LET p == CHOOSE q \in ps : TRUE
             Size(c) == IF c.ok /\ c.path # <<>> /\ f[c.path].type = "file" THEN f[c.path].size ELSE 0
         IN  Size(Canonicalize(f, p)) + SumSizes_FollowsSymlinks(f, ps \ {p})

RECURSIVE SumSizes(_, _)
SumSizes(f, ps) ==
    IF ps = {} THEN 0
    ELSE LET p == CHOOSE q \in ps : TRUE
         IN (IF f[p].type = "file" THEN f[p].size ELSE 0) + SumSizes(f, ps \ {p})

\* total_bytes_non_recursive: regular files directly in root, symlinks skipped
total_bytes_non_recursive(f, root) ==
    LET Entries(d) ==
            IF ~d.ok THEN [ok |-> FALSE, total |-> 0]
            ELSE [ok |-> TRUE, total |-> SumSizes(f, Children(f, d.path))]
    IN  Entries(ReadDir(f, root))

InspectCacheResponse(cache_version, document_count, total_bytes, valid) ==
    [k |-> "inspect", cache_version |-> cache_version, document_count |-> document_count,
     total_bytes |-> total_bytes, valid |-> valid]

\* mutant: any failure to open the manifest makes the cache invalid
inspect_OpenFailureIsInvalid(f, cache_path) ==
    LET manifest_path == Append(cache_path, MANIFEST)
        Inspected(file) ==
            LET data == IF file.ok /\ file.path # <<>> THEN f[file.path].data ELSE NoData
                valid == file.ok /\ data.json /\ data.version = "str" /\ data.count >= 0
            IN  [ok |-> TRUE,
                 text |-> InspectCacheResponse(IF valid THEN "v" ELSE "",
                                               IF valid THEN data.count ELSE 0, 0, valid),
                 err |-> canonical("io_error"), ops |-> <<Op("open", manifest_path)>>]
    IN  Inspected(Open(f, manifest_path))

\* inspect(cache_path): [ok, text, err, ops]
inspect(f, cache_path) ==
    LET manifest_path == Append(cache_path, MANIFEST)
        Inspected(file, total) ==
            LET data == IF file.ok /\ file.path # <<>> THEN f[file.path].data ELSE NoData
                hasVersion == file.ok /\ data.json /\ data.version = "str"
                hasCount == file.ok /\ data.json /\ data.count >= 0
                valid1 == hasVersion /\ hasCount
                valid == valid1 /\ total.ok
                ops == <<Op("open", manifest_path)>>
                       \o (IF valid1 THEN <<Op("read_dir", cache_path)>> ELSE <<>>)
            IN  IF ~file.ok /\ file.err # "NotFound"
                THEN [ok |-> FALSE, text |-> InspectCacheResponse("", 0, 0, FALSE),
                      err |-> canonical("io_error"), ops |-> <<Op("open", manifest_path)>>]
                ELSE [ok |-> TRUE,
                      text |-> InspectCacheResponse(IF hasVersion THEN "v" ELSE "",
                                                    IF hasCount THEN data.count ELSE 0,
                                                    IF valid THEN total.total ELSE 0,
                                                    valid),
                      err |-> canonical("io_error"), ops |-> ops]
    IN  Inspected(Open(f, manifest_path), total_bytes_non_recursive(f, cache_path))

HandlerOut(result, tool, ops, worker) ==
    [result |-> result, tool |-> tool, ops |-> ops, worker |-> worker]

\* mutant: the cache name is resolved against the working directory
inspect_cache_handle_WorkingDir(params, cfg, f) ==
    LET Inspected(r, i) ==
            IF i.ok
            THEN HandlerOut(ToolText(i.text), "context.inspect_cache", r.ops \o i.ops, FALSE)
            ELSE HandlerOut(McpToToolResult(i.err), "context.inspect_cache", r.ops \o i.ops, FALSE)
        Resolved(r) ==
            IF ~r.ok
            THEN HandlerOut(McpToToolResult(r.err), "context.inspect_cache", r.ops, FALSE)
            ELSE Inspected(r, inspect(f, r.path))
    IN  Resolved(inspect_resolve_cache_path(f, <<>>, params.cache))

\* inspect_cache::handle
inspect_cache_handle(params, cfg, f) ==
    LET Inspected(r, i) ==
            IF i.ok
            THEN HandlerOut(ToolText(i.text), "context.inspect_cache", r.ops \o i.ops, FALSE)
            ELSE HandlerOut(McpToToolResult(i.err), "context.inspect_cache", r.ops \o i.ops, FALSE)
        Resolved(r) ==
            IF ~r.ok
            THEN HandlerOut(McpToToolResult(r.err), "context.inspect_cache", r.ops, FALSE)
            ELSE Inspected(r, inspect(f, r.path))
    IN  Resolved(inspect_resolve_cache_path(f, cfg.cache_root, params.cache))

---------------------------------------------------------------------------
(* handlers/list_caches.rs *)

CharCode(c) ==
    CASE c = "." -> 46 [] c = "/" -> 47 [] c = "\\" -> 92 [] c = "a" -> 97
      [] c = "l" -> 108 [] c = "o" -> 111 [] c = "r" -> 114 [] OTHER -> 122

\* String::cmp: byte order
RECURSIVE StrLess(_, _)
StrLess(x, y) ==
    IF y = <<>> THEN FALSE
    ELSE IF x = <<>> THEN TRUE
    ELSE IF CharCode(Head(x)) # CharCode(Head(y)) THEN CharCode(Head(x)) < CharCode(Head(y))
    ELSE StrLess(Tail(x), Tail(y))

\* mutant: the entries are returned in the order read_dir yielded them
SortByPath_Unsorted(entries) == entries

\* mutant: the insertion step does not compare
Insert_AtFront(e, sorted) == <<e>> \o sorted

\* the insertion step of a stable sort: `e` goes before the first entry whose
\* path is greater
RECURSIVE Insert(_, _)
Insert(e, sorted) ==
    IF sorted = <<>> THEN <<e>>
    ELSE IF StrLess(e.path, Head(sorted).path) THEN <<e>> \o sorted
    ELSE <<Head(sorted)>> \o Insert(e, Tail(sorted))

\* caches.sort_by(|a, b| a.path.cmp(&b.path)): a stable sort of the vector
RECURSIVE SortByPath(_)
SortByPath(entries) ==
    IF entries = <<>> THEN <<>>
    ELSE Insert(entries[Len(entries)], SortByPath(SubSeq(entries, 1, Len(entries) - 1)))

CacheEntry(path, has_manifest) == [path |-> path, has_manifest |-> has_manifest]

\* mutant: a subdirectory that cannot be probed is listed without a
\* manifest, and a root that cannot be read is listed as empty
enumerate_caches_Partial(f, cache_root, order) ==
    LET ops0 == <<Op("is_dir", cache_root)>>
        ops1 == Append(ops0, Op("read_dir", cache_root))
        IsSubdir(p) == f[p].type = "dir"
        Collected(subdirs, probe) ==
            LET caches ==
                    [i \in 1..Len(subdirs) |->
                        CacheEntry(subdirs[i][Len(subdirs[i])],
                                   /\ probe[subdirs[i]].ok
                                   /\ f[probe[subdirs[i]].path].type = "file")]
            IN  [ok |-> TRUE, text |-> [k |-> "list", caches |-> SortByPath(caches)],
                 err |-> canonical("io_error"), ops |-> ops1]
        Probed(subdirs) ==
            Collected(subdirs,
                      [p \in {subdirs[i] : i \in 1..Len(subdirs)} |->
                          SymlinkMetadata(f, Append(p, MANIFEST))])
        Entries(d) ==
            IF ~d.ok THEN Probed(<<>>) ELSE Probed(SelectSeq(order, IsSubdir))
    IN  IF ~IsDir(f, cache_root)
        THEN [ok |-> FALSE, text |-> [k |-> "list", caches |-> <<>>],
              err |-> canonical("cache_missing"), ops |-> ops0]
        ELSE Entries(ReadDir(f, cache_root))

\* enumerate_caches(cache_root): [ok, text, err, ops]. `order` is the
\* sequence in which read_dir yields the entries of the root.
enumerate_caches(f, cache_root, order) ==
    LET ops0 == <<Op("is_dir", cache_root)>>
        ops1 == Append(ops0, Op("read_dir", cache_root))
        IsSubdir(p) == f[p].type = "dir"
        Failed == [ok |-> FALSE, text |-> [k |-> "list", caches |-> <<>>],
                   err |-> canonical("io_error"), ops |-> ops1]
        Collected(subdirs, probe) ==
            LET probeFails ==
                    \E i \in 1..Len(subdirs) :
                        ~probe[subdirs[i]].ok /\ probe[subdirs[i]].err # "NotFound"
                caches ==
                    [i \in 1..Len(subdirs) |->
                        CacheEntry(subdirs[i][Len(subdirs[i])],
                                   /\ probe[subdirs[i]].ok
                                   /\ f[probe[subdirs[i]].path].type = "file")]
            IN  IF probeFails THEN Failed
                ELSE [ok |-> TRUE, text |-> [k |-> "list", caches |-> SortByPath(caches)],
                      err |-> canonical("io_error"), ops |-> ops1]
        Probed(subdirs) ==
            Collected(subdirs,
                      [p \in {subdirs[i] : i \in 1..Len(subdirs)} |->
                          SymlinkMetadata(f, Append(p, MANIFEST))])
        Entries(d) ==
            IF ~d.ok THEN Failed ELSE Probed(SelectSeq(order, IsSubdir))
    IN  IF ~IsDir(f, cache_root)
        THEN [ok |-> FALSE, text |-> [k |-> "list", caches |-> <<>>],
              err |-> canonical("cache_missing"), ops |-> ops0]
        ELSE Entries(ReadDir(f, cache_root))

\* list_caches::handle
list_caches_handle(cfg, f, order) ==
    LET Listed(e) ==
            IF e.ok THEN HandlerOut(ToolText(e.text), "context.list_caches", e.ops, FALSE)
            ELSE HandlerOut(McpToToolResult(e.err), "context.list_caches", e.ops, FALSE)
    IN  Listed(enumerate_caches(f, cfg.cache_root, order))

---------------------------------------------------------------------------
(* handlers/health.rs *)

health_handle == HandlerOut(ToolText([k |-> "health", status |-> "ok"]), "health", <<>>, FALSE)

---------------------------------------------------------------------------
(* handlers/resolve_context.rs *)

\* What the environment decides for one context.resolve call: how the race
\* between the worker and the timer ends, and whether the selection
\* capability (context_core, an opaque collaborator) succeeds.
Races == {"returned", "timeout", "panic"}

Envs == [race : Races, select : BOOLEAN, order : {<<>>}]

\* the race not yet decided: the handler is at the `.await` of line 33
Pending(order) == [race |-> "pending", select |-> FALSE, order |-> order]

\* mutant: a missing manifest is reported as a missing cache
load_and_select_MissingIsCacheMissing(f, cache_path, query, budget, env) ==
    LET manifest_path == Append(cache_path, MANIFEST)
        ops == <<Op("open", manifest_path)>>
        NoText == [k |-> "selection", query |-> "", budget |-> 0, cache |-> <<>>, newline |-> FALSE]
        Loaded(file) ==
            LET data == IF file.ok /\ file.path # <<>> THEN f[file.path].data ELSE NoData
            IN  IF ~file.ok
                THEN [ok |-> FALSE, text |-> NoText, ops |-> ops,
                      err |-> IF file.err = "NotFound" THEN canonical("cache_missing")
                              ELSE canonical("io_error")]
                ELSE IF ~(data.json /\ data.core)
                THEN [ok |-> FALSE, text |-> NoText, ops |-> ops, err |-> canonical("cache_invalid")]
                ELSE IF ~env.select
                THEN [ok |-> FALSE, text |-> NoText, ops |-> Append(ops, Op("select", cache_path)),
                      err |-> canonical("internal_error")]
                ELSE [ok |-> TRUE, ops |-> Append(ops, Op("select", cache_path)),
                      err |-> canonical("internal_error"),
                      text |-> [k |-> "selection", query |-> query, budget |-> budget,
                                cache |-> cache_path, newline |-> TRUE]]
    IN  Loaded(Open(f, manifest_path))

\* load_and_select(cache_path, query, budget): [ok, text, err, ops]
load_and_select(f, cache_path, query, budget, env) ==
    LET manifest_path == Append(cache_path, MANIFEST)
        ops == <<Op("open", manifest_path)>>
        NoText == [k |-> "selection", query |-> "", budget |-> 0, cache |-> <<>>, newline |-> FALSE]
        Loaded(file) ==
            LET data == IF file.ok /\ file.path # <<>> THEN f[file.path].data ELSE NoData
            IN  IF ~file.ok
                THEN [ok |-> FALSE, text |-> NoText, ops |-> ops,
                      err |-> IF file.err = "NotFound" THEN canonical("cache_invalid")
                              ELSE canonical("io_error")]
                ELSE IF ~(data.json /\ data.core)
                THEN [ok |-> FALSE, text |-> NoText, ops |-> ops, err |-> canonical("cache_invalid")]
                ELSE IF ~env.select
                THEN [ok |-> FALSE, text |-> NoText, ops |-> Append(ops, Op("select", cache_path)),
                      err |-> canonical("internal_error")]
                ELSE [ok |-> TRUE, ops |-> Append(ops, Op("select", cache_path)),
                      err |-> canonical("internal_error"),
                      text |-> [k |-> "selection", query |-> query, budget |-> budget,
                                cache |-> cache_path, newline |-> TRUE]]
    IN  Loaded(Open(f, manifest_path))

\* mutant: the budget is validated after the cache path is resolved
resolve_context_handle_BudgetLast(params, cfg, f, env) ==
    LET Joined(r, w) ==
            IF w.ok
            THEN HandlerOut(ToolText(w.text), "context.resolve", r.ops \o w.ops, TRUE)
            ELSE HandlerOut(McpToToolResult(w.err), "context.resolve", r.ops \o w.ops, TRUE)
        Resolved(r) ==
            IF ~r.ok
            THEN HandlerOut(McpToToolResult(r.err), "context.resolve", r.ops, FALSE)
            ELSE IF params.budget < 0
            THEN HandlerOut(McpToToolResult(canonical("invalid_budget")), "context.resolve",
                            r.ops, FALSE)
            ELSE IF env.race # "returned"
            THEN HandlerOut(McpToToolResult(canonical("internal_error")), "context.resolve",
                            r.ops, TRUE)
            ELSE Joined(r, load_and_select(f, r.path, params.query, params.budget, env))
    IN  Resolved(resolve_cache_path(f, cfg.cache_root, params.cache))

\* mutant: the cache path is resolved by the worker
resolve_context_handle_ResolvesInWorker(params, cfg, f, env) ==
    LET Joined(r, w) ==
            IF w.ok
            THEN HandlerOut(ToolText(w.text), "context.resolve", r.ops \o w.ops, TRUE)
            ELSE HandlerOut(McpToToolResult(w.err), "context.resolve", r.ops \o w.ops, TRUE)
        Resolved(r) ==
            IF env.race # "returned"
            THEN HandlerOut(McpToToolResult(canonical("internal_error")), "context.resolve",
                            <<>>, TRUE)
            ELSE IF ~r.ok
            THEN HandlerOut(McpToToolResult(r.err), "context.resolve", r.ops, TRUE)
            ELSE Joined(r, load_and_select(f, r.path, params.query, params.budget, env))
    IN  IF params.budget < 0
        THEN HandlerOut(McpToToolResult(canonical("invalid_budget")), "context.resolve", <<>>, FALSE)
        ELSE Resolved(resolve_cache_path(f, cfg.cache_root, params.cache))

\* resolve_context::handle
resolve_context_handle(params, cfg, f, env) ==
    LET Joined(r, w) ==
            IF w.ok
            THEN HandlerOut(ToolText(w.text), "context.resolve", r.ops \o w.ops, TRUE)
            ELSE HandlerOut(McpToToolResult(w.err), "context.resolve", r.ops \o w.ops, TRUE)
        Resolved(r) ==
            IF ~r.ok
            THEN HandlerOut(McpToToolResult(r.err), "context.resolve", r.ops, FALSE)
            ELSE IF env.race # "returned"
            THEN HandlerOut(McpToToolResult(canonical("internal_error")), "context.resolve",
                            r.ops, TRUE)
            ELSE Joined(r, load_and_select(f, r.path, params.query, params.budget, env))
    IN  IF params.budget < 0
        THEN HandlerOut(McpToToolResult(canonical("invalid_budget")), "context.resolve", <<>>, FALSE)
        ELSE Resolved(resolve_cache_path(f, cfg.cache_root, params.cache))

---------------------------------------------------------------------------
(* handlers/mod.rs *)

\* dispatch_tool_call(params, config)
dispatch_tool_call(params, cfg, f, env) ==
    CASE params.name = "context.resolve" ->
            IF params.arguments = Absent
            THEN HandlerOut(ToolError([k |-> "message", m |-> <<"Missing arguments for context.resolve">>]),
                            "none", <<>>, FALSE)
            ELSE IF ~DeserializeResolveParams(params.arguments).ok
            THEN HandlerOut(ToolError([k |-> "message", m |-> <<"Invalid arguments for context.resolve: ", "e">>]),
                            "none", <<>>, FALSE)
            ELSE resolve_context_handle(DeserializeResolveParams(params.arguments).p, cfg, f, env)
      [] params.name = "context.list_caches" -> list_caches_handle(cfg, f, env.order)
      [] params.name = "context.inspect_cache" ->
            IF params.arguments = Absent
            THEN HandlerOut(ToolError([k |-> "message", m |-> <<"Missing arguments for context.inspect_cache">>]),
                            "none", <<>>, FALSE)
            ELSE IF ~DeserializeInspectParams(params.arguments).ok
            THEN HandlerOut(ToolError([k |-> "message", m |-> <<"Invalid arguments for context.inspect_cache: ", "e">>]),
                            "none", <<>>, FALSE)
            ELSE inspect_cache_handle(DeserializeInspectParams(params.arguments).p, cfg, f)
      [] params.name = "health" -> health_handle
      [] OTHER ->
            HandlerOut(ToolError([k |-> "message", m |-> <<"Unknown tool: ", params.name>>]),
                       "none", <<>>, FALSE)

InitializeResult ==
    [k |-> "initialize", protocolVersion |-> "2024-11-05", capabilities |-> {"tools"},
     serverName |-> "mcp-context-server", serverVersion |-> "CARGO_PKG_VERSION"]

\* mutant: the catalog also advertises the health tool
ToolCatalog_WithHealth ==
    [k |-> "tools",
     tools |-> <<"context.resolve", "context.list_caches", "context.inspect_cache", "health">>]

\* the json!({"tools": [...]}) literal of the tools/list arm: the names, in order
ToolCatalog ==
    [k |-> "tools", tools |-> <<"context.resolve", "context.list_caches", "context.inspect_cache">>]

DispatchOut(r, branch, h) ==
    [resp |-> r, branch |-> branch, tool |-> h.tool, ops |-> h.ops, worker |-> h.worker]

NoHandler == HandlerOut(ToolText([k |-> "none"]), "none", <<>>, FALSE)

\* mutant: a failed tool call is reported as a protocol error
dispatch_ToolFailureAsProtocolError(r, cfg, f, env) ==
    CASE r.method = "initialize" ->
            DispatchOut(Some(success(r.id, InitializeResult)), "initialize", NoHandler)
      [] r.method = "notifications/initialized" ->
            DispatchOut(None, "notifications/initialized", NoHandler)
      [] r.method = "ping" ->
            DispatchOut(Some(success(r.id, [k |-> "empty"])), "ping", NoHandler)
      [] r.method = "tools/list" ->
            DispatchOut(Some(success(r.id, ToolCatalog)), "tools/list", NoHandler)
      [] r.method = "tools/call" ->
            IF r.params = Absent
            THEN DispatchOut(Some(error(r.id, invalid_params(<<"Missing params for tools/call">>))),
                             "tools/call", NoHandler)
            ELSE IF ~DeserializeToolCallParams(r.params).ok
            THEN DispatchOut(Some(error(r.id, invalid_params(<<"Invalid tools/call params: ", "e">>))),
                             "tools/call", NoHandler)
            ELSE LET Called(h) ==
                         IF h.result.isError
                         THEN DispatchOut(Some(error(r.id, invalid_params(<<"tool failed">>))),
                                          "tools/call", h)
                         ELSE DispatchOut(Some(success(r.id, h.result)), "tools/call", h)
                 IN Called(dispatch_tool_call(DeserializeToolCallParams(r.params), cfg, f, env))
      [] OTHER ->
            DispatchOut(Some(error(r.id, method_not_found(r.method))), "unknown", NoHandler)

\* dispatch(req, config): the response (None when nothing is to be written)
\* and what ran
dispatch(r, cfg, f, env) ==
    CASE r.method = "initialize" ->
            DispatchOut(Some(success(r.id, InitializeResult)), "initialize", NoHandler)
      [] r.method = "notifications/initialized" ->
            DispatchOut(None, "notifications/initialized", NoHandler)
      [] r.method = "ping" ->
            DispatchOut(Some(success(r.id, [k |-> "empty"])), "ping", NoHandler)
      [] r.method = "tools/list" ->
            DispatchOut(Some(success(r.id, ToolCatalog)), "tools/list", NoHandler)
      [] r.method = "tools/call" ->
            IF r.params = Absent
            THEN DispatchOut(Some(error(r.id, invalid_params(<<"Missing params for tools/call">>))),
                             "tools/call", NoHandler)
            ELSE IF ~DeserializeToolCallParams(r.params).ok
            THEN DispatchOut(Some(error(r.id, invalid_params(<<"Invalid tools/call params: ", "e">>))),
                             "tools/call", NoHandler)
            ELSE LET Called(h) == DispatchOut(Some(success(r.id, h.result)), "tools/call", h)
                 IN Called(dispatch_tool_call(DeserializeToolCallParams(r.params), cfg, f, env))
      [] OTHER ->
            DispatchOut(Some(error(r.id, method_not_found(r.method))), "unknown", NoHandler)

---------------------------------------------------------------------------
(* server.rs: one iteration of the loop of McpServer::run *)

MAX_MESSAGE_BYTES == 1048576

\* n > MAX_MESSAGE_BYTES
TooLarge(f) == f.n > MAX_MESSAGE_BYTES

\* std::str::from_utf8(&raw) is Ok
ValidUtf8(f) == f.utf8

\* mutant: empty frames are not skipped
TrimmedIsEmpty_Never(f) == FALSE

\* trimmed.is_empty()
TrimmedIsEmpty(f) == f.text.t = "blank"

\* mutant: the version is not checked
WrongVersion_Never(r) == FALSE

\* req.jsonrpc != "2.0"
WrongVersion(r) == r.jsonrpc # "2.0"

\* mutant: the gate is never closed
GateBlocks_Never(init, r) == FALSE

\* !self.initialized && req.method != "initialize"
GateBlocks(init, r) == ~init /\ r.method # "initialize"

Obs(route, branch, tool, ops, worker) ==
    [route |-> route, branch |-> branch, tool |-> tool, ops |-> ops, worker |-> worker]

NoObs == Obs("none", "none", "none", <<>>, FALSE)

Handled(r, response, o) == [req |-> r, resp |-> response, obs |-> o]

\* lines 37-97 of run(): from the frame just read to the response to write
\* (None: nothing is written for this frame)
HandleFrame(init, f, cfg, fsys, env) ==
    IF TooLarge(f)
    THEN Handled(NoReq, Some(error(None, parse_error)), Obs("too_large", "none", "none", <<>>, FALSE))
    ELSE IF ~ValidUtf8(f)
    THEN Handled(NoReq, Some(error(None, parse_error)), Obs("invalid_utf8", "none", "none", <<>>, FALSE))
    ELSE IF TrimmedIsEmpty(f)
    THEN Handled(NoReq, None, Obs("empty", "none", "none", <<>>, FALSE))
    ELSE IF ~ParseRequest(f.text).ok
    THEN Handled(NoReq, Some(error(None, parse_error)), Obs("parse_error", "none", "none", <<>>, FALSE))
    ELSE LET r == ParseRequest(f.text).req
             Dispatched(d) ==
                 Handled(r, d.resp, Obs("dispatch", d.branch, d.tool, d.ops, d.worker))
         IN  IF WrongVersion(r)
             THEN Handled(r, Some(error(r.id, invalid_request)),
                          Obs("version", "none", "none", <<>>, FALSE))
             ELSE IF GateBlocks(init, r)
             THEN IF r.id = None
                  THEN Handled(r, None, Obs("gate", "none", "none", <<>>, FALSE))
                  ELSE Handled(r, Some(error(r.id, invalid_request_with(<<"Server not initialized">>))),
                               Obs("gate", "none", "none", <<>>, FALSE))
             ELSE Dispatched(dispatch(r, cfg, fsys, env))

\* mutant: self.initialized = (req.method == "initialize")
NextInitialized_Assigns(init, o, r) ==
    o.route = "dispatch" /\ r.method = "initialize"

\* mutant: the flag is set by the `notifications/initialized` notification
NextInitialized_OnNotification(init, o, r) ==
    IF o.route = "dispatch" /\ r.method = "notifications/initialized" THEN TRUE ELSE init

\* mutant: a second `initialize` restarts the handshake
NextInitialized_Toggles(init, o, r) ==
    IF o.route = "dispatch" /\ r.method = "initialize" THEN ~init ELSE init

\* lines 101-103: if req.method == "initialize" { self.initialized = true }
\* (reached only by an iteration that went through dispatch)
NextInitialized(init, o, r) ==
    IF o.route = "dispatch" /\ r.method = "initialize" THEN TRUE ELSE init

\* a line of output: the keys of the serialized response and the number of
\* the frame that caused it
Line(k, r) == [frame |-> k, keys |-> to_string(r).keys]

---------------------------------------------------------------------------
(* The environment: filesystems, configurations and input frames *)

A == <<"a">>

L == <<"l">>

R == <<"r">>

O == <<"o">>

S == <<"s">>

GoodManifest == Manifest(TRUE, "str", 2, TRUE)

\* /r            the cache root
\* /r/a          a cache: manifest.json, a document `a`, a symlink `l`
\* /r/l          a symlink to /o, a directory outside the root
\* /o            a directory outside the root, with a manifest of its own
\* /s            a symlink to /r
FS1 ==
    (<<R>> :> Dir)
    @@ (<<R, A>> :> Dir)
    @@ (<<R, A, MANIFEST>> :> File(10, GoodManifest))
    @@ (<<R, A, A>> :> File(7, NoData))
    @@ (<<R, A, L>> :> Symlink(<<O, MANIFEST>>))
    @@ (<<R, L>> :> Symlink(<<O>>))
    @@ (<<O>> :> Dir)
    @@ (<<O, MANIFEST>> :> File(5, GoodManifest))
    @@ (<<S>> :> Symlink(<<R>>))

\* FS1 with the manifest of the cache /r/a replaced by a symlink to the
\* manifest of /o, outside the root
FS2 == [FS1 EXCEPT ![<<R, A, MANIFEST>>] = Symlink(<<O, MANIFEST>>)]

C == <<"c">>

\* FS1 with more caches.
\* /r/aa        a directory without a manifest
\* /r/al        a cache whose manifest.json is a symlink to /o/manifest.json,
\*              with a subdirectory /r/al/a that has a manifest
\* /r/ll        a regular file
\* /c           a second root
\* /c/a         a cache whose manifest is not JSON
\* /c/l         a cache whose manifest has document_count but no string cache_version
\* /c/aa        a cache whose manifest has cache_version but no document_count
\* /c/al        a cache whose manifest cannot be read (mode 000)
FS3 ==
    FS1
    @@ (<<R, <<"a", "a">> >> :> Dir)
    @@ (<<R, <<"a", "l">> >> :> Dir)
    @@ (<<R, <<"a", "l">>, MANIFEST>> :> Symlink(<<O, MANIFEST>>))
    @@ (<<R, <<"a", "l">>, A>> :> Dir)
    @@ (<<R, <<"a", "l">>, A, MANIFEST>> :> File(10, GoodManifest))
    @@ (<<R, <<"l", "l">> >> :> File(3, NoData))
    @@ (<<C>> :> Dir)
    @@ (<<C, A>> :> Dir)
    @@ (<<C, A, MANIFEST>> :> File(4, Manifest(FALSE, "absent", -1, FALSE)))
    @@ (<<C, A, A>> :> File(7, NoData))
    @@ (<<C, L>> :> Dir)
    @@ (<<C, L, MANIFEST>> :> File(9, Manifest(TRUE, "other", 2, FALSE)))
    @@ (<<C, <<"a", "a">> >> :> Dir)
    @@ (<<C, <<"a", "a">>, MANIFEST>> :> File(9, Manifest(TRUE, "str", -1, FALSE)))
    @@ (<<C, <<"a", "l">> >> :> Dir)
    @@ (<<C, <<"a", "l">>, MANIFEST>> :> Locked(File(10, GoodManifest)))

\* FS3 with the root /r unreadable
FS4 == [FS3 EXCEPT ![<<R>>] = Locked(Dir)]

\* FS3 with the cache directory /c/al unreadable
FS5 == [FS3 EXCEPT ![<<C, <<"a", "l">> >>] = Locked(Dir)]

\* FS3 with the cache directory /r/a searchable but not enumerable
FS6 == [FS3 EXCEPT ![<<R, A>>] = SearchOnly(Dir)]

DEFAULT_TOOL_TIMEOUT_SECS == 30

ServerConfig(cache_root) == [cache_root |-> cache_root, tool_timeout |-> DEFAULT_TOOL_TIMEOUT_SECS]

\* a configured root that exists, one that is a symlink, one that is missing,
\* and one whose cache has a symlinked manifest
Worlds ==
    {[fs |-> FS1, config |-> ServerConfig(<<R>>)],
     [fs |-> FS1, config |-> ServerConfig(<<S>>)],
     [fs |-> FS1, config |-> ServerConfig(<< <<"m">> >>)],
     [fs |-> FS2, config |-> ServerConfig(<<R>>)]}

\* roots with several caches, a root that is missing, a root that cannot be
\* read, a root with a cache directory that cannot be read, a root with a
\* cache directory that cannot be enumerated, and a root that is a regular
\* file
ToolWorlds ==
    {[fs |-> FS3, config |-> ServerConfig(<<R>>)],
     [fs |-> FS3, config |-> ServerConfig(<<C>>)],
     [fs |-> FS3, config |-> ServerConfig(<< <<"m">> >>)],
     [fs |-> FS4, config |-> ServerConfig(<<R>>)],
     [fs |-> FS5, config |-> ServerConfig(<<C>>)],
     [fs |-> FS6, config |-> ServerConfig(<<R>>)],
     [fs |-> FS3, config |-> ServerConfig(<<R, A, A>>)]}

RECURSIVE NamesOfLen(_)
NamesOfLen(k) ==
    IF k = 0 THEN {<<>>}
    ELSE {<<c>> \o n : c \in Alphabet, n \in NamesOfLen(k - 1)}

\* every cache name of at most MaxNameLen characters
Names == UNION {NamesOfLen(k) : k \in 0..MaxNameLen}

\* the cache names the transport-level specification sends
FewNames == {<<"a">>, <<"l">>, <<".", ".">>, <<"/", "a">>, <<"\\", "a">>, <<"a", "/", "a">>}

\* the cache names the tool-level specification sends
ToolNames == FewNames \cup {<<"a", "a">>, <<"a", "l">>}

Frame(n, utf8, text) == [n |-> n, utf8 |-> utf8, text |-> text]

Blank == [t |-> "blank"]

Garbage == [t |-> "garbage"]

Request(jsonrpc, id, method, params) ==
    [t |-> "obj", jsonrpc |-> jsonrpc, id |-> id, method |-> method, params |-> params]

CallParams(name, arguments) == [t |-> "obj", name |-> name, arguments |-> arguments]

Arguments(cache, query, budget) ==
    [t |-> "obj", cache |-> cache, query |-> query, budget |-> budget]

Methods ==
    {"initialize", "notifications/initialized", "ping", "tools/list", "tools/call", "bogus", "Ping"}

Ids == {Absent, JInt(1), JStr("a")}

Queries == {"q", ""}

ResolveArguments(names) ==
    {Arguments(JName(c), JStr(q), JInt(b)) : c \in names, q \in Queries, b \in {-1, 0, 1}}

InspectArguments(names) ==
    {Arguments(JName(c), Absent, Absent) : c \in names}

\* params of tools/call: absent, null, not an object, without a name, and
\* calls of each tool with well-formed and malformed arguments
ToolCalls(names) ==
    {CallParams(JStr("context.resolve"), a) :
        a \in ResolveArguments(names)
              \cup {Absent, JInt(0), Arguments(Absent, JStr("q"), JInt(1)),
                    Arguments(JName(A), JStr("q"), JFloat)}}
    \cup {CallParams(JStr("context.inspect_cache"), a) :
        a \in InspectArguments(names) \cup {Absent, JInt(0), Arguments(JInt(0), Absent, Absent)}}
    \cup {CallParams(JStr(t), a) :
        t \in {"context.list_caches", "health", "bogus"}, a \in {Absent, JInt(0)}}

BadParams == {Absent, JNull, JInt(0), CallParams(Absent, Absent)}

\* frames within the size limit that are valid UTF-8
TextFrames ==
    {Frame(1, TRUE, Blank), Frame(2, TRUE, Garbage)}
    \cup {Frame(3, TRUE, Request(JStr(v), i, JStr(m), Absent)) :
            v \in {"2.0", "1.0"}, i \in Ids, m \in Methods}
    \cup {Frame(3, TRUE, Request(JStr("2.0"), i, JStr("tools/call"), p)) :
            i \in Ids, p \in BadParams \cup ToolCalls(FewNames)}
    \cup {Frame(3, TRUE, Request(JStr("2.0"), i, JStr("tools/list"), p)) :
            i \in Ids, p \in {JNull, JInt(0), CallParams(JStr("health"), Absent)}}
    \cup {Frame(3, TRUE, Request(v, i, m, Absent)) :
            v \in {Absent, JInt(2), JStr("2.0")}, i \in {JNull, JFloat, JInt(1)},
            m \in {Absent, JStr("ping"), JStr("initialize")}}

\* frames at and over the size limit, and frames that are not UTF-8
EdgeFrames ==
    {Frame(n, u, t) :
        n \in {MAX_MESSAGE_BYTES, MAX_MESSAGE_BYTES + 1}, u \in BOOLEAN,
        t \in {Blank, Garbage, Request(JStr("2.0"), JInt(1), JStr("ping"), Absent),
               Request(JStr("2.0"), JInt(1), JStr("initialize"), Absent)}}
    \cup {Frame(3, FALSE, t) :
        t \in {Garbage, Request(JStr("2.0"), JInt(1), JStr("ping"), Absent)}}

Frames == TextFrames \cup EdgeFrames

\* a client that makes tool calls: the handshake first, then the
\* notification and calls of the two tools that take a name, with every name
HandshakeFrames ==
    {Frame(3, TRUE, Request(JStr("2.0"), JInt(1), JStr("initialize"), Absent))}

CallFrames ==
    {Frame(3, TRUE, Request(JStr("2.0"), Absent, JStr("notifications/initialized"), Absent))}
    \cup {Frame(3, TRUE, Request(JStr("2.0"), JInt(1), JStr("tools/call"), p)) :
            p \in {CallParams(JStr("context.resolve"), a) : a \in ResolveArguments(Names)}
                  \cup {CallParams(JStr("context.inspect_cache"), a) : a \in InspectArguments(Names)}}

---------------------------------------------------------------------------
(* server.rs: McpServer::new and the loop of McpServer::run; main.rs *)

NoFrame == Frame(0, TRUE, Blank)

InitIn(worlds) ==
    /\ initialized = FALSE
    /\ \E w \in worlds : config = w.config /\ fs = w.fs
    /\ pc = "read"
    /\ raw = NoFrame
    /\ req = NoReq
    /\ resp = None
    /\ obs = NoObs
    /\ stdout = <<>>
    /\ frames = 0
    /\ afterInit = FALSE
    /\ exit = "none"
    /\ fatal = "none"
    /\ task = "none"
    /\ abandoned = 0

Init == InitIn(Worlds)

\* the sequences that enumerate a set of entries, each entry once
RECURSIVE Orders(_)
Orders(entries) ==
    IF entries = {} THEN {<<>>}
    ELSE UNION {{<<x>> \o rest : rest \in Orders(entries \ {x})} : x \in entries}

\* the frame is a tools/call of context.list_caches
CallsListCaches(f) ==
    /\ ~TooLarge(f)
    /\ ValidUtf8(f)
    /\ ParseRequest(f.text).ok
    /\ ParseRequest(f.text).req.method = "tools/call"
    /\ DeserializeToolCallParams(ParseRequest(f.text).req.params).ok
    /\ DeserializeToolCallParams(ParseRequest(f.text).req.params).name = "context.list_caches"

\* list_caches.rs lines 41-48: the orders in which read_dir may yield the
\* entries of the cache root during the call made by frame f (no other call
\* collects the entries of a directory in a vector)
ReadDirOrders(f, cfg, fsys) ==
    LET Yielded(d) == IF d.ok THEN Orders(Children(fsys, d.path)) ELSE {<<>>}
    IN  IF CallsListCaches(f) THEN Yielded(ReadDir(fsys, cfg.cache_root)) ELSE {<<>>}

\* lines 31-97: read a frame (n > 0) from the input and handle it up to the
\* point where its response, if any, is to be written, or, in a
\* context.resolve call that spawned its worker, up to the `.await` of the
\* race between the worker and the timer
ReadFrame(input) ==
    /\ pc = "read"
    /\ frames < MaxFrames
    /\ \E f \in input :
          \E order \in ReadDirOrders(f, config, fs) :
             LET Handle(h) ==
                     /\ raw' = f
                     /\ req' = h.req
                     /\ obs' = h.obs
                     /\ IF h.obs.worker
                        THEN resp' = None /\ task' = "running" /\ pc' = "await"
                        ELSE resp' = h.resp /\ task' = "none" /\ pc' = "respond"
             IN  Handle(HandleFrame(initialized, f, config, fs, Pending(order)))
    /\ frames' = frames + 1
    /\ UNCHANGED <<initialized, config, fs, stdout, afterInit, exit, fatal, abandoned>>

\* mutant: the deadline is examined before the worker's result
WorkerReturns_DeadlineFirst ==
    /\ pc = "await"
    /\ resp' = Some(success(req.id, McpToToolResult(canonical("internal_error"))))
    /\ task' = "returned"
    /\ pc' = "respond"
    /\ UNCHANGED <<initialized, config, fs, raw, req, obs, stdout, frames, afterInit, exit, fatal,
                   abandoned>>

\* resolve_context.rs line 34-35, mod.rs lines 112-114: the worker returned
\* load_and_select's result before the timer; the handler returns it, dispatch
\* wraps the tool result and run() has the response to write
WorkerReturns ==
    /\ pc = "await"
    /\ \E env \in Envs :
          /\ env.race = "returned"
          /\ LET Handle(h) == resp' = h.resp /\ obs' = h.obs
             IN  Handle(HandleFrame(initialized, raw, config, fs, env))
    /\ task' = "returned"
    /\ pc' = "respond"
    /\ UNCHANGED <<initialized, config, fs, raw, req, stdout, frames, afterInit, exit, fatal,
                   abandoned>>

\* resolve_context.rs lines 36-43: the two arms in which the worker's result
\* is not there both return canonical(InternalError)
RaceLost(how) ==
    /\ pc = "await"
    /\ resp' = Some(success(req.id, McpToToolResult(canonical("internal_error"))))
    /\ task' = how
    /\ pc' = "respond"
    /\ UNCHANGED <<initialized, config, fs, raw, req, obs, stdout, frames, afterInit, exit, fatal>>

\* Ok(Err(join_err)): the worker panicked
WorkerPanics ==
    /\ RaceLost("panic")
    /\ UNCHANGED abandoned

\* mutant: the worker is awaited without a timer
TimerFires_Never ==
    /\ FALSE
    /\ UNCHANGED vars

\* mutant: on timeout the handler joins the worker before it returns
TimerFires_JoinsWorker ==
    /\ RaceLost("timeout")
    /\ UNCHANGED abandoned

\* Err(_): the timer fired first; the JoinHandle is dropped, the blocking
\* worker is neither cancelled nor joined and keeps running
TimerFires ==
    /\ RaceLost("timeout")
    /\ abandoned' = abandoned + 1

\* mutant: a worker whose call timed out delivers its result when it ends
AbandonedWorkerEnds_WritesLate ==
    /\ abandoned > 0
    /\ abandoned' = abandoned - 1
    /\ stdout' = Append(stdout, Line(frames, success(None, McpToToolResult(canonical("cache_invalid")))))
    /\ UNCHANGED <<initialized, config, fs, pc, raw, req, resp, obs, frames, afterInit,
                   exit, fatal, task>>

\* a worker whose call timed out ends on its own; its result is discarded
AbandonedWorkerEnds ==
    /\ abandoned > 0
    /\ abandoned' = abandoned - 1
    /\ UNCHANGED <<initialized, config, fs, pc, raw, req, resp, obs, stdout, frames, afterInit,
                   exit, fatal, task>>

\* end of an iteration: the flag update of lines 101-103, then `raw.clear()`
EndIteration ==
    /\ initialized' = NextInitialized(initialized, obs, req)
    /\ afterInit' = (obs.route = "dispatch" /\ req.method = "initialize")
    /\ raw' = NoFrame
    /\ req' = NoReq
    /\ resp' = None
    /\ obs' = NoObs
    /\ task' = "none"
    /\ pc' = "read"

\* mutant: a frame that fails to parse ends run() with an error
WriteResponse_ParseFatal ==
    /\ pc = "respond"
    /\ resp # None
    /\ IF obs.route = "parse_error"
       THEN /\ pc' = "exited"
            /\ exit' = "fail"
            /\ fatal' = "parse"
            /\ UNCHANGED <<initialized, raw, req, resp, obs, stdout, afterInit, task>>
       ELSE /\ stdout' = Append(stdout, Line(frames, resp.v))
            /\ EndIteration
            /\ UNCHANGED <<exit, fatal>>
    /\ UNCHANGED <<config, fs, frames, abandoned>>

\* write_response succeeds: the line is written and flushed
WriteResponse ==
    /\ pc = "respond"
    /\ resp # None
    /\ stdout' = Append(stdout, Line(frames, resp.v))
    /\ EndIteration
    /\ UNCHANGED <<config, fs, frames, exit, fatal, abandoned>>

\* write_response fails: `?` returns the error from run(), main exits with 1
WriteFails ==
    /\ pc = "respond"
    /\ resp # None
    /\ pc' = "exited"
    /\ exit' = "fail"
    /\ fatal' = "write"
    /\ UNCHANGED <<initialized, config, fs, raw, req, resp, obs, stdout, frames, afterInit,
                   task, abandoned>>

\* no response for this frame: `continue`, or dispatch returned None
Continue ==
    /\ pc = "respond"
    /\ resp = None
    /\ EndIteration
    /\ UNCHANGED <<config, fs, stdout, frames, exit, fatal, abandoned>>

\* mutant: end-of-input is treated as a read error
ReadEof_AsError ==
    /\ pc = "read"
    /\ pc' = "exited"
    /\ exit' = "fail"
    /\ fatal' = "read"
    /\ UNCHANGED <<initialized, config, fs, raw, req, resp, obs, stdout, frames, afterInit,
                   task, abandoned>>

\* read_until returns Ok(0): break, run() returns Ok(()), main returns
ReadEof ==
    /\ pc = "read"
    /\ pc' = "exited"
    /\ exit' = "ok"
    /\ UNCHANGED <<initialized, config, fs, raw, req, resp, obs, stdout, frames, afterInit, fatal,
                   task, abandoned>>

\* read_until returns Err: `?` returns the error from run(), main exits with 1
ReadFails ==
    /\ pc = "read"
    /\ pc' = "exited"
    /\ exit' = "fail"
    /\ fatal' = "read"
    /\ UNCHANGED <<initialized, config, fs, raw, req, resp, obs, stdout, frames, afterInit,
                   task, abandoned>>

Next ==
    \/ ReadFrame(Frames)
    \/ WriteResponse
    \/ WriteFails
    \/ Continue
    \/ WorkerReturns
    \/ WorkerPanics
    \/ TimerFires
    \/ AbandonedWorkerEnds
    \/ ReadEof
    \/ ReadFails

Spec == Init /\ [][Next]_vars

NextCall ==
    \/ ReadFrame(IF initialized THEN CallFrames ELSE HandshakeFrames)
    \/ WriteResponse
    \/ WriteFails
    \/ Continue
    \/ WorkerReturns
    \/ WorkerPanics
    \/ TimerFires
    \/ AbandonedWorkerEnds
    \/ ReadEof
    \/ ReadFails

\* the same server fed a handshake and tool calls with every bounded name
SpecCall == Init /\ [][NextCall]_vars

\* a client that completes the handshake and then calls the tools, with
\* arguments of every shape for each of them
ToolFrames ==
    {Frame(3, TRUE, Request(JStr("2.0"), Absent, JStr("notifications/initialized"), Absent))}
    \cup {Frame(3, TRUE, Request(JStr("2.0"), JInt(1), JStr("tools/call"), p)) :
            p \in ToolCalls(ToolNames)
                  \cup {CallParams(JStr(t), a) :
                          t \in {"context.resolve", "context.list_caches", "context.inspect_cache"},
                          a \in {JNull, Arguments(JName(A), Absent, Absent),
                                 Arguments(JName(A), JStr("q"), JStr("1"))}}}

NextTools ==
    \/ ReadFrame(IF initialized THEN ToolFrames ELSE HandshakeFrames)
    \/ WriteResponse
    \/ WriteFails
    \/ Continue
    \/ WorkerReturns
    \/ WorkerPanics
    \/ TimerFires
    \/ AbandonedWorkerEnds
    \/ ReadEof
    \/ ReadFails

\* the same server over cache roots of every shape, fed a handshake and
\* calls of every tool
SpecTools == InitIn(ToolWorlds) /\ [][NextTools]_vars

\* a client that completes the handshake, may send the notification, and
\* then calls context.resolve
LiveFrames ==
    {Frame(3, TRUE, Request(JStr("2.0"), Absent, JStr("notifications/initialized"), Absent))}
    \cup {Frame(3, TRUE, Request(JStr("2.0"), i, JStr("tools/call"), CallParams(JStr("context.resolve"), a))) :
            i \in {Absent, JInt(1), JStr("a")},
            a \in ResolveArguments({A, L, <<".", ".">>}) \cup {Absent, JInt(0)}}

\* the loop with an output that accepts every write
NextLive ==
    \/ ReadFrame(IF initialized THEN LiveFrames ELSE HandshakeFrames)
    \/ WriteResponse
    \/ Continue
    \/ WorkerReturns
    \/ WorkerPanics
    \/ TimerFires
    \/ AbandonedWorkerEnds
    \/ ReadEof
    \/ ReadFails

\* the timer of tokio::time::timeout fires unless the race ended before, and
\* run() writes a pending response; nothing is assumed of the worker
SpecLive ==
    /\ Init
    /\ [][NextLive]_vars
    /\ WF_vars(TimerFires)
    /\ WF_vars(WriteResponse)

\* a client that sends frames of every kind the loop distinguishes, in
\* either handshake state, and then closes the input
EofFrames ==
    HandshakeFrames
    \cup LiveFrames
    \cup {Frame(1, TRUE, Blank), Frame(2, TRUE, Garbage),
          Frame(MAX_MESSAGE_BYTES + 1, TRUE, Garbage), Frame(3, FALSE, Garbage),
          Frame(3, TRUE, Request(JStr("2.0"), JInt(1), JStr("ping"), Absent)),
          Frame(3, TRUE, Request(JStr("2.0"), JInt(1), JStr("tools/call"),
                                 CallParams(JStr("context.list_caches"), Absent)))}

\* the loop with an input that is read without error and an output that
\* accepts every write
NextEof ==
    \/ ReadFrame(EofFrames)
    \/ WriteResponse
    \/ Continue
    \/ WorkerReturns
    \/ WorkerPanics
    \/ TimerFires
    \/ AbandonedWorkerEnds
    \/ ReadEof

\* the input is finite and ends: a read returns a frame or zero bytes; the
\* loop, the only task of the current-thread runtime, takes its next step;
\* the timer fires unless the race ended before
SpecEof ==
    /\ Init
    /\ [][NextEof]_vars
    /\ WF_vars(ReadEof)
    /\ WF_vars(WriteResponse)
    /\ WF_vars(Continue)
    /\ WF_vars(TimerFires)

TypeOK ==
    /\ initialized \in BOOLEAN
    /\ pc \in {"read", "await", "respond", "exited"}
    /\ task \in {"none", "running"} \cup Races
    /\ pc = "await" <=> task = "running"
    /\ abandoned \in 0..frames
    /\ exit \in {"none", "ok", "fail"}
    /\ fatal \in {"none", "read", "write"}
    /\ frames \in 0..MaxFrames
    /\ Len(stdout) <= frames

---------------------------------------------------------------------------
(* Properties.  The frame of the current iteration is `raw`; while          *)
(* pc = "respond" the iteration has handled it and `resp` is what it is     *)
(* about to write (None: nothing).                                          *)

\* the frame of this iteration parsed as a request envelope
IsRequestFrame ==
    /\ raw.n <= MAX_MESSAGE_BYTES
    /\ raw.utf8
    /\ raw.text.t = "obj"
    /\ ParseRequest(raw.text).ok

\* the request the client sent in this frame
Sent == ParseRequest(raw.text).req

NotInitializedError(id) ==
    [jsonrpc |-> "2.0", id |-> id, result |-> None,
     error |-> Some([code |-> -32600, message |-> <<"Server not initialized">>, data |-> None])]

\* C1: while Uninitialized, a request with jsonrpc "2.0", an id and a method
\* other than `initialize` is answered with error -32600 "Server not
\* initialized" carrying the request id, and neither a dispatcher branch nor a
\* tool handler, filesystem operation or worker is run for it.
C1_GateRejectsBeforeInitialize ==
    (/\ pc = "respond"
     /\ ~initialized
     /\ IsRequestFrame
     /\ Sent.jsonrpc = "2.0"
     /\ Sent.id # None
     /\ Sent.method # "initialize")
    => /\ resp = Some(NotInitializedError(Sent.id))
       /\ obs.branch = "none"
       /\ obs.tool = "none"
       /\ obs.ops = <<>>
       /\ ~obs.worker

C1_Witness ==
    /\ pc = "respond"
    /\ ~initialized
    /\ IsRequestFrame
    /\ Sent.method = "tools/call"
    /\ Sent.id = Str("a")
    /\ Sent.params = CallParams(JStr("context.inspect_cache"), Arguments(JName(A), Absent, Absent))
    /\ resp = Some(NotInitializedError(Str("a")))

\* C2: a request without an id (a notification) is never answered, whatever
\* its method or jsonrpc version and in either handshake state.
C2_NotificationsAreSilent ==
    (pc = "respond" /\ IsRequestFrame /\ Sent.id = None) => resp = None

\* C3: the flag starts FALSE, never goes back from TRUE to FALSE, and changes
\* only in the iteration that handles a request whose method is `initialize`.
C3_HandshakeMonotone ==
    /\ ~initialized
    /\ [][/\ initialized => initialized'
          /\ initialized' # initialized =>
                /\ pc = "respond"
                /\ IsRequestFrame
                /\ Sent.method = "initialize"]_vars

C3_Witness ==
    /\ pc = "read"
    /\ initialized
    /\ ~afterInit
    /\ frames >= 2

\* C4: in the iteration that follows a dispatched `initialize` the state is
\* Ready: the frame is not rejected with "Server not initialized", and a
\* `notifications/initialized` message (jsonrpc "2.0", with or without id)
\* gets no response.
C4_ReadyBeforeNextFrame ==
    (pc = "respond" /\ afterInit)
    => /\ initialized
       /\ resp # None =>
            (resp.v.error = None \/ resp.v.error.v.message # <<"Server not initialized">>)
       /\ (/\ IsRequestFrame
           /\ Sent.jsonrpc = "2.0"
           /\ Sent.method = "notifications/initialized") => resp = None

C4_Witness ==
    /\ pc = "respond"
    /\ afterInit
    /\ frames = 2
    /\ IsRequestFrame
    /\ Sent.jsonrpc = "2.0"
    /\ Sent.method = "notifications/initialized"
    /\ resp = None

ExactlyOneOfResultError(keys) == ("result" \in keys) # ("error" \in keys)

\* C5: every response written, and every response about to be written, has
\* exactly one of `result` and `error`, as a value and on the wire.
C5_ResultXorError ==
    /\ (pc = "respond" /\ resp # None) =>
            /\ (resp.v.result = None) # (resp.v.error = None)
            /\ ExactlyOneOfResultError(to_string(resp.v).keys)
    /\ \A i \in 1..Len(stdout) : ExactlyOneOfResultError(stdout[i].keys)

C5_Witness ==
    /\ Len(stdout) >= 2
    /\ \E i \in 1..Len(stdout) : "result" \in stdout[i].keys
    /\ \E i \in 1..Len(stdout) : "error" \in stdout[i].keys

\* the JSON value an RpcId serializes to
IdToJson(id) ==
    CASE id.t = "Number" -> JInt(id.n)
      [] id.t = "Str"    -> JStr(id.s)
      [] OTHER           -> Absent

\* C6: a response to a frame that parsed as a request carries that request's
\* id, as the same JSON number or string (no id field when the request had
\* none); a response to a frame that did not parse has no id field.
C6_IdEchoed ==
    (pc = "respond" /\ resp # None) =>
        LET wire == to_string(resp.v) IN
        IF IsRequestFrame /\ ~IsNoneJson(raw.text.id)
        THEN "id" \in wire.keys /\ IdToJson(wire.id) = raw.text.id
        ELSE "id" \notin wire.keys

C6_Witness ==
    /\ pc = "respond"
    /\ IsRequestFrame
    /\ raw.text.id = JStr("a")
    /\ resp # None
    /\ resp.v.error # None
    /\ to_string(resp.v).id = Str("a")

\* the frame is over the size limit, is not UTF-8, or is non-empty text that
\* does not parse as a request envelope
Unparsable ==
    \/ raw.n > MAX_MESSAGE_BYTES
    \/ ~raw.utf8
    \/ (raw.text.t # "blank" /\ ~ParseRequest(raw.text).ok)

ParseErrorResponse ==
    [jsonrpc |-> "2.0", id |-> None, result |-> None,
     error |-> Some([code |-> -32700, message |-> <<"Parse error">>, data |-> None])]

\* C7: an oversized, non-UTF-8 or unparsable frame yields the protocol error
\* -32700 without id, in either handshake state; the next step of the loop
\* writes exactly that one line and returns to reading (unless the write
\* itself fails), leaving the handshake state as it was. The only other step
\* possible meanwhile is the end of an abandoned worker, which leaves the
\* loop where it is.
C7_ParseErrorsDoNotEndLoop ==
    [][(pc = "respond" /\ Unparsable) =>
          /\ resp = Some(ParseErrorResponse)
          /\ \/ /\ pc' = "read"
                /\ exit' = "none"
                /\ initialized' = initialized
                /\ stdout' = Append(stdout, Line(frames, ParseErrorResponse))
             \/ fatal' = "write"
             \/ (abandoned' < abandoned /\ UNCHANGED <<pc, resp, stdout, exit, initialized>>)]_vars

C7_Witness ==
    /\ pc = "read"
    /\ initialized
    /\ frames = 3
    /\ Len(stdout) = 3
    /\ stdout[2].keys = {"jsonrpc", "error"}
    /\ stdout[3].keys = {"jsonrpc", "id", "result"}

\* C8 as stated: the process ends with a non-zero status only when a write
\* to the output failed.
C8_OnlyWriteFailureIsFatal ==
    exit = "fail" => fatal = "write"

\* C8 as amended: the process ends with a non-zero status only when a write
\* to the output or a read from the input failed; a write fails only with a
\* response pending, and the loop ends in no other way than end-of-input.
C8_OnlyStreamFailureIsFatal ==
    /\ exit = "fail" => fatal \in {"read", "write"}
    /\ fatal = "write" => (pc = "exited" /\ exit = "fail" /\ resp # None)
    /\ fatal = "read" => (pc = "exited" /\ exit = "fail" /\ resp = None)
    /\ pc = "exited" <=> exit # "none"
    /\ exit = "ok" => fatal = "none"

C8_Witness ==
    /\ exit = "fail"
    /\ fatal = "read"
    /\ initialized
    /\ frames >= 1

\* C9: one frame at a time, in order: a frame is read only when no response
\* is pending, a line is written only for the frame read last, each frame
\* causes at most one line, the lines are in the order of their frames, and a
\* frame that is empty after trimming (within the size limit, valid UTF-8:
\* the frames the loop trims) causes none.
C9_OneFrameAtATime ==
    /\ [](/\ pc = "read" => resp = None
          /\ \A i \in 1..Len(stdout) :
                /\ stdout[i].frame \in 1..frames
                /\ i > 1 => stdout[i - 1].frame < stdout[i].frame
          /\ (/\ pc = "respond"
              /\ raw.n <= MAX_MESSAGE_BYTES
              /\ raw.utf8
              /\ raw.text.t = "blank") => resp = None)
    /\ [][/\ frames' # frames =>
                (pc = "read" /\ resp = None /\ frames' = frames + 1 /\ stdout' = stdout)
          /\ stdout' # stdout =>
                /\ pc = "respond"
                /\ resp # None
                /\ frames' = frames
                /\ stdout' = Append(stdout, Line(frames, resp.v))]_vars

C9_Witness ==
    /\ pc = "respond"
    /\ frames = 3
    /\ raw = Frame(1, TRUE, Blank)
    /\ resp = None
    /\ Len(stdout) = 2
    /\ stdout[1].frame = 1
    /\ stdout[2].frame = 2

\* the cache name contains ".." or begins with "/" or "\"
BadName(name) ==
    \/ \E i \in 1..Len(name) : i < Len(name) /\ name[i] = "." /\ name[i + 1] = "."
    \/ Len(name) >= 1 /\ name[1] \in {"/", "\\"}

\* the frame is a tools/call of `tool` whose arguments deserialize
CallsTool(tool) ==
    /\ pc = "respond"
    /\ initialized
    /\ IsRequestFrame
    /\ Sent.jsonrpc = "2.0"
    /\ Sent.method = "tools/call"
    /\ Sent.params.t = "obj"
    /\ Sent.params.name = JStr(tool)
    /\ Sent.params.arguments.t = "obj"
    /\ Sent.params.arguments.cache.t = "name"
    /\ tool = "context.resolve" =>
            (Sent.params.arguments.query.t = "str" /\ Sent.params.arguments.budget.t = "int")

CallName == Sent.params.arguments.cache.cs

CallBudget == Sent.params.arguments.budget.n

DomainErrorResult(id, code, message) ==
    Some([jsonrpc |-> "2.0", id |-> id, error |-> None,
          result |-> Some([k |-> "tool", isError |-> TRUE,
                           content |-> <<[type |-> "text",
                                          text |-> [k |-> "mcp_error", newline |-> TRUE,
                                                    json |-> [error |-> [code |-> code,
                                                                         message |-> message]]]]>>])])

NoFilesystemAccess == obs.ops = <<>> /\ ~obs.worker

\* C10 as stated: in both tools a name with ".." or a leading "/" or "\" is
\* rejected with CacheMissing before any filesystem operation.
C10_BadNameIsCacheMissing ==
    \A tool \in {"context.inspect_cache", "context.resolve"} :
        (CallsTool(tool) /\ BadName(CallName)) =>
            /\ resp = DomainErrorResult(Sent.id, "cache_missing", "Cache does not exist")
            /\ NoFilesystemAccess

\* C10 as amended: such a name is rejected before any filesystem operation,
\* with CacheMissing in context.inspect_cache and in context.resolve with a
\* budget >= 0, and with InvalidBudget in context.resolve with a budget < 0.
C10_BadNameRejectedBeforeFilesystem ==
    /\ (CallsTool("context.inspect_cache") /\ BadName(CallName)) =>
            /\ resp = DomainErrorResult(Sent.id, "cache_missing", "Cache does not exist")
            /\ NoFilesystemAccess
    /\ (CallsTool("context.resolve") /\ BadName(CallName)) =>
            /\ resp = IF CallBudget < 0
                      THEN DomainErrorResult(Sent.id, "invalid_budget", "Budget is invalid")
                      ELSE DomainErrorResult(Sent.id, "cache_missing", "Cache does not exist")
            /\ NoFilesystemAccess

C10_Witness ==
    /\ CallsTool("context.resolve")
    /\ CallName = <<"a", ".", ".">>
    /\ CallBudget = 1
    /\ obs.tool = "context.resolve"
    /\ resp = DomainErrorResult(Number(1), "cache_missing", "Cache does not exist")


\* the canonical cache root
CanonicalRoot == Canonicalize(fs, config.cache_root)

\* the file or directory that `p` leads to, symlinks followed, lies within
\* the canonical cache root
LeadsInsideRoot(p) ==
    /\ CanonicalRoot.ok
    /\ Canonicalize(fs, p).ok
    /\ IsPrefix(CanonicalRoot.path, Canonicalize(fs, p).path)

\* the frame is a call in which the path resolver runs on CallName
ResolverRuns(tool) ==
    /\ CallsTool(tool)
    /\ tool = "context.resolve" => CallBudget >= 0

\* what the resolver of `tool` returns for the name of this call
ResolverResult(tool) ==
    IF tool = "context.resolve"
    THEN resolve_cache_path(fs, config.cache_root, CallName)
    ELSE inspect_resolve_cache_path(fs, config.cache_root, CallName)

\* `p` is canonical, within the canonical root, and an existing directory
CanonicalDirInRoot(p) ==
    /\ Canonicalize(fs, p) = FsOk(p)
    /\ \A i \in 1..Len(p) : fs[SubSeq(p, 1, i)].type # "symlink"
    /\ \A i \in 1..Len(p) : p[i] \notin {<<>>, <<".">>, <<".", ".">>}
    /\ CanonicalRoot.ok
    /\ IsPrefix(CanonicalRoot.path, p)
    /\ p # <<>>
    /\ fs[p].type = "dir"

\* the part of C11 about the resolver: a returned path is canonical, within
\* the canonical root and an existing directory
ResolverReturnsCanonicalDirInRoot ==
    \A tool \in {"context.inspect_cache", "context.resolve"} :
        (ResolverRuns(tool) /\ ResolverResult(tool).ok) => CanonicalDirInRoot(ResolverResult(tool).path)

\* C11: whenever the path resolver succeeds, the path it returns is canonical,
\* lies within the canonical cache root and is an existing directory, and no
\* handler opens a manifest or enumerates a directory that lies outside the
\* canonical root.
C11_NothingOutsideRootIsRead ==
    /\ ResolverReturnsCanonicalDirInRoot
    /\ pc \in {"await", "respond"} =>
          \A i \in 1..Len(obs.ops) :
              (obs.ops[i].op \in {"open", "read_dir"} /\ Canonicalize(fs, obs.ops[i].path).ok)
              => LeadsInsideRoot(obs.ops[i].path)


\* C12: when the configured cache root cannot be canonicalized, path
\* resolution of a syntactically acceptable name yields IoError, not
\* CacheMissing.
C12_UnresolvableRootIsIoError ==
    \A tool \in {"context.inspect_cache", "context.resolve"} :
        (ResolverRuns(tool) /\ ~BadName(CallName) /\ ~CanonicalRoot.ok)
        => resp = DomainErrorResult(Sent.id, "io_error", "I/O error occurred")


\* the name fails for a reason the client is answerable for: it contains ".."
\* or is absolute, or what it names under the root does not exist, lies
\* outside the canonical root, or is not a directory
ClientAttributableFailure(name) ==
    LET Fails(target) ==
            \/ ~target.ok
            \/ ~CanonicalRoot.ok
            \/ ~IsPrefix(CanonicalRoot.path, target.path)
            \/ target.path = <<>>
            \/ fs[target.path].type # "dir"
    IN  BadName(name) \/ Fails(Canonicalize(fs, Join(config.cache_root, name)))

\* C13: for a given tool and request id, every cache name that the path
\* resolver examines (context.inspect_cache, context.resolve with a budget
\* that is not negative) and that fails for a client-attributable reason gets
\* the same response, which depends on the request id alone: the tool result
\* with isError = TRUE carrying `cache_missing` and its canonical message.
C13_ClientFailuresAreIndistinguishable ==
    \A tool \in {"context.inspect_cache", "context.resolve"} :
        (ResolverRuns(tool) /\ ClientAttributableFailure(CallName))
        => resp = DomainErrorResult(Sent.id, "cache_missing", "Cache does not exist")

C13_Witness ==
    /\ ResolverRuns("context.inspect_cache")
    /\ CallName = <<"l">>
    /\ config.cache_root = <<R>>
    /\ Canonicalize(fs, <<R, L>>) = FsOk(<<O>>)
    /\ ClientAttributableFailure(CallName)
    /\ ~BadName(CallName)
    /\ Len(obs.ops) = 3
    /\ resp = DomainErrorResult(Number(1), "cache_missing", "Cache does not exist")


CallQuery == Sent.params.arguments.query.s

\* C14: a context.resolve call with a negative budget is answered with the
\* domain error `invalid_budget`, whatever its cache name and query, and the
\* call performs no filesystem operation and starts no worker: it never
\* reaches the race between worker and timer.
C14_NegativeBudgetIsRejectedFirst ==
    /\ (CallsTool("context.resolve") /\ CallBudget < 0)
       => /\ resp = DomainErrorResult(Sent.id, "invalid_budget", "Budget is invalid")
          /\ NoFilesystemAccess
          /\ task = "none"
    /\ pc = "await" => Sent.params.arguments.budget.n >= 0

C14_Witness ==
    /\ CallsTool("context.resolve")
    /\ CallName = <<".", ".">>
    /\ CallQuery = ""
    /\ CallBudget = -1
    /\ obs.tool = "context.resolve"
    /\ resp = DomainErrorResult(Number(1), "invalid_budget", "Budget is invalid")


InternalErrorResult(id) == DomainErrorResult(id, "internal_error", "Internal error")

\* C15: in context.resolve, when the timer fires before the worker returns,
\* or the worker panics, the call's outcome is the domain error
\* `internal_error`. On timeout the handler returns in the step in which the
\* timer fires and the worker is left running: it is neither waited for nor
\* cancelled nor joined, and when it ends later nothing else changes.
C15_TimeoutOrPanicIsInternalError ==
    /\ [](/\ (pc = "respond" /\ task \in {"timeout", "panic"})
             => /\ CallsTool("context.resolve")
                /\ resp = InternalErrorResult(Sent.id)
          /\ pc = "await" => (resp = None /\ obs.tool = "context.resolve"))
    /\ [][/\ (pc = "await" /\ task' = "timeout")
             => /\ pc' = "respond"
                /\ resp' = InternalErrorResult(Sent.id)
                /\ abandoned' = abandoned + 1
          /\ abandoned' > abandoned => (pc = "await" /\ task' = "timeout")
          /\ abandoned' < abandoned
             => UNCHANGED <<initialized, config, fs, pc, raw, req, resp, obs, stdout, frames,
                            afterInit, exit, fatal, task>>]_vars

C15_Witness ==
    /\ pc = "read"
    /\ frames = 3
    /\ abandoned = 2
    /\ Len(stdout) = 3
    /\ stdout[3].keys = {"jsonrpc", "id", "result"}


\* frame number k is a context.resolve request with an id, received in Ready
ResolveRequestReceived(k) ==
    /\ frames = k
    /\ pc \in {"await", "respond"}
    /\ initialized
    /\ IsRequestFrame
    /\ Sent.jsonrpc = "2.0"
    /\ Sent.id # None
    /\ Sent.method = "tools/call"
    /\ Sent.params.t = "obj"
    /\ Sent.params.name = JStr("context.resolve")

\* frame number k has been answered with exactly one line and the loop is
\* back at reading the next frame
AnsweredOnce(k) ==
    /\ pc = "read"
    /\ frames = k
    /\ Cardinality({i \in 1..Len(stdout) : stdout[i].frame = k}) = 1
    /\ stdout[Len(stdout)] = [frame |-> k, keys |-> {"jsonrpc", "id", "result"}]

\* C16: every context.resolve request with an id received in state Ready is
\* eventually answered with exactly one response, after which the loop is
\* back at reading the next frame, whether or not the worker ever returns
\* (the timer fires and the output accepts the write).
C16_ResolveIsEventuallyAnswered ==
    \A k \in 1..MaxFrames : ResolveRequestReceived(k) ~> AnsweredOnce(k)

C16_Witness ==
    /\ AnsweredOnce(2)
    /\ abandoned = 1
    /\ afterInit = FALSE


\* the frame, received in Ready, is a tools/call request whose params
\* deserialize to {name, arguments}
ToolCallDeserializes ==
    /\ pc = "respond"
    /\ initialized
    /\ IsRequestFrame
    /\ Sent.jsonrpc = "2.0"
    /\ Sent.method = "tools/call"
    /\ Sent.params.t = "obj"
    /\ Sent.params.name.t = "str"

ToolName == Sent.params.name.s

\* the tool result carried by the response of this iteration
ToolResultSent == resp.v.result.v

\* the arguments of the call are missing or do not deserialize to the
\* parameters of the tool
BadArguments ==
    \/ /\ ToolName \in {"context.resolve", "context.inspect_cache"}
       /\ \/ IsNoneJson(Sent.params.arguments)
          \/ Sent.params.arguments.t # "obj"
          \/ Sent.params.arguments.cache.t # "name"
    \/ /\ ToolName = "context.resolve"
       /\ Sent.params.arguments.t = "obj"
       /\ \/ Sent.params.arguments.query.t # "str"
          \/ Sent.params.arguments.budget.t # "int"

\* C17: a tools/call request, received in Ready, whose params deserialize to
\* {name, arguments} is answered with a success envelope (result, no error)
\* carrying a tool result. A tool result that carries a message or a domain
\* error has isError = TRUE, and so has the result of a call of an unknown
\* tool, of a call with bad arguments, of a call that timed out and of a call
\* whose worker panicked. The next step of the loop writes that response and
\* returns to reading, unless the write itself fails (the only other step
\* possible is the end of an abandoned worker, which leaves the loop where
\* it is).
C17_ToolFailuresAreToolResults ==
    /\ [](ToolCallDeserializes
          => /\ resp # None
             /\ resp.v.error = None
             /\ resp.v.result # None
             /\ to_string(resp.v).keys \in {{"jsonrpc", "id", "result"}, {"jsonrpc", "result"}}
             /\ ToolResultSent.k = "tool"
             /\ Len(ToolResultSent.content) = 1
             /\ ToolResultSent.isError
                <=> ToolResultSent.content[1].text.k \in {"message", "mcp_error"}
             /\ ToolName \notin {"context.resolve", "context.list_caches",
                                 "context.inspect_cache", "health"}
                => ToolResultSent.isError
             /\ BadArguments => ToolResultSent.isError
             /\ task \in {"timeout", "panic"} => ToolResultSent.isError)
    /\ [][ToolCallDeserializes
          => \/ /\ pc' = "read"
                /\ exit' = "none"
                /\ stdout' = Append(stdout, Line(frames, resp.v))
             \/ fatal' = "write"
             \/ (abandoned' < abandoned /\ UNCHANGED <<pc, resp, stdout, exit>>)]_vars

C17_Witness ==
    /\ ToolCallDeserializes
    /\ ToolName = "context.resolve"
    /\ task = "panic"
    /\ ToolResultSent.isError
    /\ ToolResultSent.content[1].text.json.error.code = "internal_error"
    /\ resp.v.error = None


\* the frame, received in Ready, is a tools/call request whose params are
\* absent (or null), or present but not an object with a string name
ToolCallParamsMalformed ==
    /\ pc = "respond"
    /\ initialized
    /\ IsRequestFrame
    /\ Sent.jsonrpc = "2.0"
    /\ Sent.method = "tools/call"
    /\ \/ IsNoneJson(raw.text.params)
       \/ raw.text.params.t # "obj"
       \/ raw.text.params.name.t # "str"

\* C18: a tools/call request, received in Ready, whose params are absent or
\* do not deserialize to {name, arguments} is answered with a protocol error
\* of code -32602 that echoes the request's id, and no tool handler is run:
\* no tool is entered, the file system is not touched and no worker is
\* spawned.
C18_MalformedCallParamsAreInvalidParams ==
    ToolCallParamsMalformed
    => /\ resp # None
       /\ resp.v.result = None
       /\ resp.v.error # None
       /\ resp.v.error.v.code = -32602
       /\ resp.v.id = Sent.id
       /\ obs.branch = "tools/call"
       /\ obs.tool = "none"
       /\ obs.ops = <<>>
       /\ ~obs.worker
       /\ task = "none"

C18_Witness ==
    /\ ToolCallParamsMalformed
    /\ raw.text.params = CallParams(Absent, Absent)
    /\ resp.v.error.v.code = -32602
    /\ Sent.id = Number(1)


\* the names tools/list advertises
Advertised == {ToolCatalog.tools[i] : i \in 1..Len(ToolCatalog.tools)}

\* the response of this iteration reports an unknown tool
UnknownToolResult ==
    /\ resp # None
    /\ resp.v.error = None
    /\ resp.v.result # None
    /\ ToolResultSent.k = "tool"
    /\ ToolResultSent.isError
    /\ Len(ToolResultSent.content) = 1
    /\ ToolResultSent.content[1].text = [k |-> "message", m |-> <<"Unknown tool: ", ToolName>>]

\* C19: tools/list advertises exactly context.resolve, context.list_caches
\* and context.inspect_cache, and a tools/call naming any other tool is
\* answered with a success envelope whose tool result has isError = TRUE and
\* text "Unknown tool: {name}", no handler being run.
C19_OnlyAdvertisedToolsAreExecuted ==
    /\ Advertised = {"context.resolve", "context.list_caches", "context.inspect_cache"}
    /\ (ToolCallDeserializes /\ ToolName \notin Advertised)
       => (UnknownToolResult /\ obs.tool = "none")


\* the methods dispatch matches, by exact string comparison
KnownMethods ==
    {"initialize", "notifications/initialized", "ping", "tools/list", "tools/call"}

\* the frame, received in Ready, is a request that carries an id
RequestWithIdInReady ==
    /\ pc = "respond"
    /\ initialized
    /\ IsRequestFrame
    /\ Sent.jsonrpc = "2.0"
    /\ Sent.id # None

\* C20: in state Ready, a request with an id whose method is none of the five
\* known methods (compared as exact strings: "Ping" is unknown) is answered
\* with the protocol error -32601 "Method not found: {method}" echoing the
\* request's id, and ping is answered with a success envelope, echoing the
\* id, whose result is the empty object.
C20_UnknownMethodAndPing ==
    /\ (RequestWithIdInReady /\ Sent.method \notin KnownMethods)
       => /\ resp = Some(error(Sent.id, JsonRpcError(-32601, <<"Method not found: ", Sent.method>>)))
          /\ resp.v.error.v.code = -32601
          /\ resp.v.result = None
          /\ resp.v.id = Sent.id
          /\ to_string(resp.v).keys = {"jsonrpc", "id", "error"}
          /\ obs.branch = "unknown"
    /\ (RequestWithIdInReady /\ Sent.method = "ping")
       => /\ resp = Some(success(Sent.id, [k |-> "empty"]))
          /\ resp.v.error = None
          /\ to_string(resp.v).keys = {"jsonrpc", "id", "result"}
          /\ obs.branch = "ping"

C20_Witness ==
    /\ RequestWithIdInReady
    /\ Sent.method = "Ping"
    /\ Sent.id = Str("a")
    /\ resp.v.error.v.code = -32601


\* the frame, received in Ready, is a tools/list request
ToolsListInReady ==
    /\ pc = "respond"
    /\ initialized
    /\ IsRequestFrame
    /\ Sent.jsonrpc = "2.0"
    /\ Sent.method = "tools/list"

\* C21: every tools/list request received in Ready is answered with a
\* success envelope whose result is the same catalog of exactly three tools,
\* context.resolve, context.list_caches and context.inspect_cache, whatever
\* the configuration, the file system, the params of the request and the
\* requests handled before; nothing is read from the file system.
C21_CatalogIsStatic ==
    ToolsListInReady
    => /\ resp = Some(success(Sent.id,
                   [k |-> "tools",
                    tools |-> <<"context.resolve", "context.list_caches",
                                "context.inspect_cache">>]))
       /\ Len(resp.v.result.v.tools) = 3
       /\ obs.ops = <<>>
       /\ obs.tool = "none"

C21_Witness ==
    /\ ToolsListInReady
    /\ raw.text.params = JInt(0)
    /\ config.cache_root = << <<"m">> >>
    /\ frames = 3
    /\ ~afterInit
    /\ resp.v.result.v.tools[3] = "context.inspect_cache"


\* what File::open returns for the manifest.json of the directory that the
\* resolver of `tool` returned for this call
ManifestOpened(tool) == Open(fs, Append(ResolverResult(tool).path, MANIFEST))

\* the content of that manifest
ManifestData(tool) ==
    IF ManifestOpened(tool).ok /\ ManifestOpened(tool).path # <<>>
    THEN fs[ManifestOpened(tool).path].data
    ELSE NoData

\* context.inspect_cache resolved the cache directory, and the manifest is
\* absent, is not JSON, or lacks a string cache_version or a non-negative
\* integer document_count
InspectsDefectiveManifest ==
    /\ ResolverRuns("context.inspect_cache")
    /\ ResolverResult("context.inspect_cache").ok
    /\ \/ /\ ~ManifestOpened("context.inspect_cache").ok
          /\ ManifestOpened("context.inspect_cache").err = "NotFound"
       \/ /\ ManifestOpened("context.inspect_cache").ok
          /\ \/ ~ManifestData("context.inspect_cache").json
             \/ ManifestData("context.inspect_cache").version # "str"
             \/ ManifestData("context.inspect_cache").count < 0

\* the payload of a non-error result of context.inspect_cache
InspectPayload == ToolResultSent.content[1].text

\* the call returned a non-error result with valid = FALSE
InspectReportsInvalid ==
    /\ resp # None
    /\ resp.v.error = None
    /\ ~ToolResultSent.isError
    /\ InspectPayload.k = "inspect"
    /\ ~InspectPayload.valid

\* C22: when context.inspect_cache resolves the cache directory and the
\* manifest is absent, not JSON, or lacks a string cache_version or a
\* non-negative integer document_count, the call returns a non-error tool
\* result with valid = FALSE, and every inspect result with valid = FALSE has
\* cache_version "", document_count 0 and total_bytes 0.
C22_InvalidInspectIsZeroed ==
    /\ InspectsDefectiveManifest => InspectReportsInvalid
    /\ (CallsTool("context.inspect_cache") /\ InspectReportsInvalid)
       => InspectPayload = InspectCacheResponse("", 0, 0, FALSE)


\* context.inspect_cache resolved the cache directory and opening its
\* manifest failed with an OS error other than not-found
InspectOpenFails ==
    /\ ResolverRuns("context.inspect_cache")
    /\ ResolverResult("context.inspect_cache").ok
    /\ ~ManifestOpened("context.inspect_cache").ok
    /\ ManifestOpened("context.inspect_cache").err # "NotFound"

\* C23: when context.inspect_cache has resolved the cache directory and
\* opening the manifest fails with an OS error other than not-found, the
\* call is answered with the domain error io_error as a tool result with
\* isError = TRUE, not with a valid = FALSE payload, and the directory is
\* not enumerated.
C23_ManifestOpenFailureIsIoError ==
    InspectOpenFails
    => /\ resp = DomainErrorResult(Sent.id, "io_error", "I/O error occurred")
       /\ ToolResultSent.isError
       /\ InspectPayload.k # "inspect"
       /\ \A i \in 1..Len(obs.ops) : obs.ops[i].op # "read_dir"

C23_Witness ==
    /\ InspectOpenFails
    /\ ManifestOpened("context.inspect_cache").err = "PermissionDenied"
    /\ fs[<<C, <<"a", "l">> >>].perm
    /\ CallName = <<"a", "l">>
    /\ ToolResultSent.content[1].text.json.error.code = "io_error"


\* the frame, received in Ready, is a tools/call of context.list_caches
CallsList ==
    /\ ToolCallDeserializes
    /\ ToolName = "context.list_caches"

\* the call returned a listing
ListReturned ==
    /\ CallsList
    /\ resp # None
    /\ resp.v.error = None
    /\ ~ToolResultSent.isError
    /\ ToolResultSent.content[1].text.k = "list"

Listing == ToolResultSent.content[1].text.caches

\* the immediate subdirectories of the cache root: the entries of the root
\* that are themselves directories, not files and not symlinks
Subdirectories == {p \in Children(fs, CanonicalRoot.path) : fs[p].type = "dir"}

\* manifest.json in directory p is a regular file, the entry itself being
\* looked at (a symlink is not followed)
HasRegularManifest(p) ==
    /\ Append(p, MANIFEST) \in DOMAIN fs
    /\ fs[Append(p, MANIFEST)].type = "file"

\* C24: a listing returned by context.list_caches has exactly one entry per
\* immediate subdirectory of the cache root and no other entry (files,
\* symlinks and deeper directories are left out), is sorted ascending by
\* name in byte order, and has_manifest is TRUE exactly for the
\* subdirectories whose manifest.json is a regular file, symlinks not being
\* followed.
C24_ListingIsSubdirectoriesSorted ==
    ListReturned
    => /\ Len(Listing) = Cardinality(Subdirectories)
       /\ {Listing[i].path : i \in 1..Len(Listing)} = {p[Len(p)] : p \in Subdirectories}
       /\ \A i \in 1..(Len(Listing) - 1) : StrLess(Listing[i].path, Listing[i + 1].path)
       /\ \A i \in 1..Len(Listing) : \A p \in Subdirectories :
             p[Len(p)] = Listing[i].path => (Listing[i].has_manifest <=> HasRegularManifest(p))

C24_Witness ==
    /\ ListReturned
    /\ fs = FS3
    /\ config.cache_root = <<R>>
    /\ Listing = <<CacheEntry(<<"a">>, TRUE), CacheEntry(<<"a", "a">>, FALSE),
                   CacheEntry(<<"a", "l">>, FALSE)>>


\* the configured cache root exists and is a directory (symlinks followed)
RootIsDirectory ==
    /\ CanonicalRoot.ok
    /\ (CanonicalRoot.path = <<>> \/ fs[CanonicalRoot.path].type = "dir")

\* a step of the enumeration fails: the root cannot be read, or the manifest
\* of a subdirectory cannot be probed because the subdirectory cannot be
\* searched
EnumerationFails ==
    /\ RootIsDirectory
    /\ \/ ~fs[CanonicalRoot.path].perm
       \/ ~fs[CanonicalRoot.path].list
       \/ \E p \in Subdirectories : ~fs[p].perm

\* C25: context.list_caches answers with the domain error cache_missing when
\* the cache root does not exist or is not a directory, with io_error when
\* the root is a directory and a step of the enumeration fails, and with a
\* listing otherwise; an error result carries no listing, not even a partial
\* one.
C25_ListFailures ==
    CallsList
    => /\ ~RootIsDirectory
          => resp = DomainErrorResult(Sent.id, "cache_missing", "Cache does not exist")
       /\ EnumerationFails
          => resp = DomainErrorResult(Sent.id, "io_error", "I/O error occurred")
       /\ (RootIsDirectory /\ ~EnumerationFails) => ListReturned
       /\ ~ListReturned
          => /\ ToolResultSent.isError
             /\ Len(ToolResultSent.content) = 1
             /\ ToolResultSent.content[1].text.k = "mcp_error"

\* a cache directory that cannot be searched makes the whole listing fail,
\* although the other subdirectories could be listed
C25_Witness ==
    /\ CallsList
    /\ fs = FS5
    /\ fs[CanonicalRoot.path].perm
    /\ Cardinality(Subdirectories) = 4
    /\ resp = DomainErrorResult(Sent.id, "io_error", "I/O error occurred")


\* a context.resolve call whose cache directory was resolved and whose
\* worker returned
ResolveWorkerReturned ==
    /\ ResolverRuns("context.resolve")
    /\ ResolverResult("context.resolve").ok
    /\ task = "returned"

\* the manifest of the resolved cache is missing, or is not a manifest that
\* deserializes
ResolveManifestUnusable ==
    \/ /\ ~ManifestOpened("context.resolve").ok
       /\ ManifestOpened("context.resolve").err = "NotFound"
    \/ /\ ManifestOpened("context.resolve").ok
       /\ ~(ManifestData("context.resolve").json /\ ManifestData("context.resolve").core)

\* the selection capability was invoked in this call
SelectionInvoked == \E i \in 1..Len(obs.ops) : obs.ops[i].op = "select"

\* C26: in context.resolve, once the cache directory is resolved, a missing
\* manifest and a manifest that fails to parse are both answered with the
\* domain error cache_invalid, and the selection capability is not invoked.
C26_UnusableManifestIsCacheInvalid ==
    (ResolveWorkerReturned /\ ResolveManifestUnusable)
    => /\ resp = DomainErrorResult(Sent.id, "cache_invalid", "Cache exists but is invalid")
       /\ ~SelectionInvoked

\* the directory /r/aa has no manifest
C26_Witness ==
    /\ ResolveWorkerReturned
    /\ CallName = <<"a", "a">>
    /\ ~ManifestOpened("context.resolve").ok
    /\ ManifestOpened("context.resolve").err = "NotFound"
    /\ ToolResultSent.content[1].text.json.error.code = "cache_invalid"


\* the taxonomy as a table: wire name, canonical message, protocol code
Taxonomy ==
    ("cache_missing" :> [message |-> "Cache does not exist", code |-> -32602])
    @@ ("cache_invalid" :> [message |-> "Cache exists but is invalid", code |-> -32602])
    @@ ("invalid_query" :> [message |-> "Query is invalid", code |-> -32602])
    @@ ("invalid_budget" :> [message |-> "Budget is invalid", code |-> -32602])
    @@ ("io_error" :> [message |-> "I/O error occurred", code |-> -32603])
    @@ ("internal_error" :> [message |-> "Internal error", code |-> -32603])

\* the response of this iteration carries a domain error as a tool result
DomainErrorSent ==
    /\ pc = "respond"
    /\ resp # None
    /\ resp.v.result # None
    /\ ToolResultSent.k = "tool"
    /\ ToolResultSent.content[1].text.k = "mcp_error"

DomainError == ToolResultSent.content[1].text.json

\* C27: the taxonomy is a total function on the six kinds: each has one wire
\* name and one canonical message and maps to one protocol code, -32602 for
\* cache_missing, cache_invalid, invalid_query and invalid_budget and -32603
\* for io_error and internal_error; the protocol rendering of a domain error
\* carries that code, the message and the structured error in `data`. Every
\* domain error the server emits is one of the six and renders so.
C27_TaxonomyIsTotal ==
    /\ McpErrorCodes = DOMAIN Taxonomy
    /\ Cardinality(McpErrorCodes) = 6
    /\ \A c \in McpErrorCodes :
          /\ canonical(c) = [error |-> [code |-> c, message |-> Taxonomy[c].message]]
          /\ json_rpc_code(c) = Taxonomy[c].code
          /\ McpToJsonRpcError(canonical(c))
                = [code |-> Taxonomy[c].code, message |-> <<Taxonomy[c].message>>,
                   data |-> Some(canonical(c))]
    /\ \A c, d \in McpErrorCodes : Taxonomy[c].message = Taxonomy[d].message => c = d
    /\ DomainErrorSent
       => /\ DomainError.error.code \in McpErrorCodes
          /\ McpToJsonRpcError(DomainError).code = Taxonomy[DomainError.error.code].code
          /\ McpToJsonRpcError(DomainError).message = <<DomainError.error.message>>
          /\ McpToJsonRpcError(DomainError).data = Some(DomainError)

C27_Witness ==
    /\ DomainErrorSent
    /\ DomainError.error.code = "io_error"
    /\ McpToJsonRpcError(DomainError).code = -32603
    /\ McpToJsonRpcError(DomainError).data.v.error.message = "I/O error occurred"


\* the tool result that renders the domain error of kind `code` with its
\* canonical message: isError, one text block holding the serialized error
\* object followed by a newline
CanonicalErrorResult(code) ==
    [k |-> "tool", isError |-> TRUE,
     content |-> <<[type |-> "text",
                    text |-> [k |-> "mcp_error", newline |-> TRUE,
                              json |-> [error |-> [code |-> code,
                                                   message |-> Taxonomy[code].message]]]]>>]

\* C28: every domain error emitted by a tool handler, at whatever call site
\* and for whatever input, is rendered as the tool result of its kind with
\* the canonical message: the result depends on the kind alone, so two
\* errors of one kind from different call sites have identical text, and
\* the text is the serialized error object, from which code and message are
\* read back.
C28_DomainErrorsAreCanonical ==
    DomainErrorSent
    => /\ DomainError.error.code \in DOMAIN Taxonomy
       /\ ToolResultSent = CanonicalErrorResult(DomainError.error.code)
       /\ resp = Some(success(Sent.id, CanonicalErrorResult(DomainError.error.code)))
       /\ obs.tool \in {"context.resolve", "context.list_caches", "context.inspect_cache"}

\* cache_missing from the containment check of the resolver (the symlink
\* /r/l leads outside the root)
C28_Witness ==
    /\ DomainErrorSent
    /\ CallsTool("context.inspect_cache")
    /\ CallName = <<"l">>
    /\ fs = FS3
    /\ config.cache_root = <<R>>
    /\ Len(obs.ops) = 3
    /\ ToolResultSent = CanonicalErrorResult("cache_missing")


\* one order of enumeration, fixed once and for all for each root
ReferenceOrder == CHOOSE order \in ReadDirOrders(raw, config, fs) : TRUE

\* the tool result determined by the file system, the configuration and the
\* name and arguments of the call alone, `selected` being the outcome of the
\* selection capability
ReferenceResult(selected) ==
    dispatch_tool_call(DeserializeToolCallParams(Sent.params), config, fs,
                       [race |-> "returned", select |-> selected, order |-> ReferenceOrder]).result

\* C29 as stated: the response to a tools/call is determined by the file
\* system, the configuration and the call's tool name, arguments and id (and,
\* in context.resolve, the outcome of the selection), whatever was handled
\* before and in whatever order the entries of the root are enumerated.
C29_CallsAreDeterministic ==
    ToolCallDeserializes
    => \E selected \in BOOLEAN : resp = Some(success(Sent.id, ReferenceResult(selected)))

\* C29 as amended: the same, for the calls of context.resolve whose worker
\* returns before the timer and for every call of the other tools; a
\* context.resolve call that times out or whose worker panics is answered
\* internal_error, whatever an identical call is answered.
C29_CallsAreDeterministicUnlessTimeout ==
    (ToolCallDeserializes /\ task \notin {"timeout", "panic"})
    => \E selected \in BOOLEAN : resp = Some(success(Sent.id, ReferenceResult(selected)))

\* a listing of three caches, returned after another frame was handled
C29_Witness ==
    /\ ListReturned
    /\ frames = 3
    /\ ~afterInit
    /\ Len(Listing) = 3
    /\ resp = Some(success(Sent.id, ReferenceResult(TRUE)))


\* the loop has ended on end-of-input: run() returned Ok(())
EndedCleanly ==
    /\ pc = "exited"
    /\ exit = "ok"
    /\ fatal = "none"

\* C30: a read of zero bytes ends the loop without error and without a
\* further response, whatever the handshake state, and nothing is written
\* once the loop has ended; with an input of finitely many frames followed
\* by end-of-input and an output that accepts every write, the loop
\* eventually ends cleanly.
C30_EndOfInputEndsLoopCleanly ==
    /\ [][(pc = "read" /\ pc' = "exited")
          => /\ EndedCleanly'
             /\ UNCHANGED <<stdout, initialized, resp>>]_vars
    /\ [][pc = "exited" => UNCHANGED <<pc, exit, stdout>>]_vars
    /\ <>EndedCleanly

\* the input ended after the handshake and the frames that followed it, each
\* answered or skipped
C30_Witness ==
    /\ EndedCleanly
    /\ initialized
    /\ frames = MaxFrames
    /\ Len(stdout) >= 2

---------------------------------------------------------------------------
(* State shared across requests *)

\* the operations on the filesystem that the handlers perform: path
\* arithmetic, metadata queries, opening for reading, enumeration, and the
\* selection capability reading the cache it is given
ReadOnlyOps == {"join", "canonicalize", "is_dir", "open", "read_dir", "select"}

\* the handler of this iteration worked on the configured cache root
HandlerUsesConfig ==
    obs.ops # <<>>
    => CASE obs.tool = "context.list_caches" ->
                obs.ops[1] = Op("is_dir", config.cache_root)
         [] obs.tool \in {"context.resolve", "context.inspect_cache"} ->
                /\ obs.ops[1] = Op("join", Join(config.cache_root, CallName))
                /\ Len(obs.ops) >= 3 => obs.ops[3] = Op("canonicalize", config.cache_root)
         [] OTHER -> FALSE

\* nothing of an iteration is left when the next one starts
NothingCarriedOver ==
    pc = "read" => (raw = NoFrame /\ req = NoReq /\ resp = None /\ obs = NoObs /\ task = "none")

\* C31: no step of the server changes the configuration or the filesystem;
\* every handler works on the cache root of the configuration fixed at
\* start and performs only operations that read; and an iteration that
\* starts finds nothing of the earlier ones but the handshake flag (and the
\* output already written).
C31_OnlyHandshakeFlagChanges ==
    [][/\ config' = config
       /\ fs' = fs
       /\ NothingCarriedOver'
       /\ HandlerUsesConfig'
       /\ \A i \in 1..Len(obs'.ops) : obs'.ops[i].op \in ReadOnlyOps]_vars

\* a call of context.inspect_cache, after the handshake and its response,
\* that resolved the name, opened the manifest and enumerated the directory
C31_Witness ==
    /\ CallsTool("context.inspect_cache")
    /\ Len(obs.ops) >= 6
    /\ obs.ops[6].op = "read_dir"
    /\ Len(stdout) >= 1

---------------------------------------------------------------------------
(* context.inspect_cache: total_bytes *)

\* the directory that the resolver of context.inspect_cache returned
InspectedDir == ResolverResult("context.inspect_cache").path

\* the regular files located directly in directory d: no symlink, no
\* directory, nothing from below a subdirectory
DirectFiles(d) ==
    {p \in DOMAIN fs : Len(p) = Len(d) + 1 /\ SubSeq(p, 1, Len(d)) = d /\ fs[p].type = "file"}

RECURSIVE TotalSize(_)
TotalSize(ps) ==
    IF ps = {} THEN 0
    ELSE LET p == CHOOSE q \in ps : TRUE IN fs[p].size + TotalSize(ps \ {p})

\* the call returned a non-error result with valid = TRUE
InspectReportsValid ==
    /\ CallsTool("context.inspect_cache")
    /\ resp # None
    /\ resp.v.error = None
    /\ ~ToolResultSent.isError
    /\ InspectPayload.k = "inspect"
    /\ InspectPayload.valid

\* context.inspect_cache resolved the cache directory and read a manifest
\* with both fields, and the directory cannot be enumerated
InspectSumFails ==
    /\ ResolverRuns("context.inspect_cache")
    /\ ResolverResult("context.inspect_cache").ok
    /\ ManifestOpened("context.inspect_cache").ok
    /\ ManifestData("context.inspect_cache").json
    /\ ManifestData("context.inspect_cache").version = "str"
    /\ ManifestData("context.inspect_cache").count >= 0
    /\ ~(fs[InspectedDir].perm /\ fs[InspectedDir].list)

\* C32: a result of context.inspect_cache with valid = TRUE carries as
\* total_bytes the sum of the sizes of the regular files located directly in
\* the cache directory (symlinks and the contents of subdirectories left
\* out); when the manifest is well-formed and the directory cannot be
\* enumerated, the call returns a non-error result with valid = FALSE and
\* total_bytes 0.
C32_TotalBytesIsDirectFileSizes ==
    /\ InspectReportsValid
       => InspectPayload.total_bytes = TotalSize(DirectFiles(InspectedDir))
    /\ InspectSumFails
       => /\ InspectReportsInvalid
          /\ InspectPayload.total_bytes = 0

\* the cache /r/a: a manifest of 10 bytes, a document of 7 bytes, and a
\* symlink to a file of 5 bytes
C32_Witness ==
    /\ InspectReportsValid
    /\ CallName = <<"a">>
    /\ InspectedDir = <<R, A>>
    /\ fs[<<R, A, L>>].type = "symlink"
    /\ fs[fs[<<R, A, L>>].target].size = 5
    /\ InspectPayload.total_bytes = 17

\* the directory /r/a cannot be enumerated
C32_SumFailureReached ==
    /\ InspectSumFails
    /\ CallName = <<"a">>
    /\ InspectPayload = InspectCacheResponse("v", 2, 0, FALSE)

---------------------------------------------------------------------------
(* tools/call: the arguments of the call *)

\* what context.list_caches returns when called without arguments
ListWithoutArguments ==
    dispatch_tool_call([name |-> "context.list_caches", arguments |-> Absent], config, fs,
                       Pending(ReferenceOrder)).result

\* C33: a tools/call of context.resolve or context.inspect_cache, received
\* in Ready, whose arguments are absent or null or do not have the shape of
\* the tool's parameters is answered with a success envelope carrying a
\* tool result with isError = TRUE, and no handler, filesystem operation or
\* worker is run for it; a call of context.list_caches runs the handler and
\* is answered as the call without arguments is, whatever its arguments.
C33_BadArgumentsAreToolErrors ==
    /\ (ToolCallDeserializes /\ BadArguments)
       => /\ resp # None
          /\ resp.v.error = None
          /\ resp.v.result # None
          /\ ToolResultSent.isError
          /\ ToolResultSent.content[1].text.k = "message"
          /\ obs.tool = "none"
          /\ NoFilesystemAccess
          /\ task = "none"
    /\ CallsList
       => /\ obs.tool = "context.list_caches"
          /\ resp = Some(success(Sent.id, ListWithoutArguments))

\* a context.resolve call whose budget is not an integer
C33_Witness ==
    /\ ToolCallDeserializes
    /\ ToolName = "context.resolve"
    /\ Sent.params.arguments.t = "obj"
    /\ Sent.params.arguments.cache.t = "name"
    /\ Sent.params.arguments.query.t = "str"
    /\ Sent.params.arguments.budget.t = "float"
    /\ ToolResultSent.isError
    /\ obs.tool = "none"

\* a context.list_caches call with an object as arguments that lists caches
C33_ListWithArgumentsReached ==
    /\ CallsList
    /\ Sent.params.arguments.t = "obj"
    /\ ~ToolResultSent.isError
    /\ Len(ToolResultSent.content[1].text.caches) >= 2

---------------------------------------------------------------------------
(* The version check *)

\* the frame parsed as a request whose jsonrpc is not "2.0", and this
\* iteration has handled it
WrongVersionHandled ==
    /\ pc = "respond"
    /\ IsRequestFrame
    /\ Sent.jsonrpc # "2.0"

InvalidRequestError(id) ==
    [jsonrpc |-> "2.0", id |-> id, result |-> None,
     error |-> Some([code |-> -32600, message |-> <<"Invalid Request">>, data |-> None])]

\* C34: a parsed request whose jsonrpc is not "2.0" is answered with error
\* -32600 "Invalid Request" carrying the request id, in either handshake
\* state and whatever its method (before initialization too, where the gate
\* would answer "Server not initialized"); no dispatcher branch, handler or
\* filesystem operation is run for it, and the step that ends its iteration
\* leaves the handshake flag as it was.
C34_WrongVersionIsInvalidRequest ==
    [][WrongVersionHandled
       => /\ resp = Some(InvalidRequestError(Sent.id))
          /\ obs.route = "version"
          /\ obs.branch = "none"
          /\ obs.tool = "none"
          /\ NoFilesystemAccess
          /\ initialized' = initialized]_vars

\* an `initialize` request with jsonrpc "1.0" received while Uninitialized
C34_Witness ==
    /\ WrongVersionHandled
    /\ ~initialized
    /\ Sent.method = "initialize"
    /\ Sent.jsonrpc = "1.0"
    /\ resp.v.error.v.code = -32600

\* a request with jsonrpc "1.0" received in Ready
C34_ReadyReached ==
    /\ WrongVersionHandled
    /\ initialized
    /\ Sent.method = "tools/list"

---------------------------------------------------------------------------
(* context.resolve: the order of the checks *)

\* a filesystem operation named `op` was performed in this call
Performed(op) == \E i \in 1..Len(obs.ops) : obs.ops[i].op = op

\* the manifest of the resolved cache cannot be opened, for a reason other
\* than its absence
ResolveManifestUnreadable ==
    /\ ~ManifestOpened("context.resolve").ok
    /\ ManifestOpened("context.resolve").err # "NotFound"

\* the response carries the domain error `code`
AnsweredWith(code) ==
    /\ resp # None
    /\ resp.v.error = None
    /\ ToolResultSent.isError
    /\ ToolResultSent.content[1].text.k = "mcp_error"
    /\ ToolResultSent.content[1].text.json.error.code = code

\* the response carries the text of a selection
AnsweredWithSelection ==
    /\ resp # None
    /\ resp.v.error = None
    /\ ~ToolResultSent.isError
    /\ ToolResultSent.content[1].text.k = "selection"

\* the outcome of a context.resolve call is that of the first check that
\* fails, and nothing of a later check is run
FirstFailingCheckDecides ==
    /\ CallBudget < 0
       => /\ AnsweredWith("invalid_budget")
          /\ NoFilesystemAccess
          /\ task = "none"
    /\ (CallBudget >= 0 /\ ~ResolverResult("context.resolve").ok)
       => /\ AnsweredWith("cache_missing") \/ AnsweredWith("io_error")
          /\ ClientAttributableFailure(CallName) => AnsweredWith("cache_missing")
          /\ ~Performed("open")
          /\ ~SelectionInvoked
          /\ ~obs.worker
          /\ task = "none"
    /\ (CallBudget >= 0 /\ ResolverResult("context.resolve").ok)
       => /\ task # "none"
          /\ ResolveManifestUnreadable => (AnsweredWith("io_error") /\ ~SelectionInvoked)
          /\ ResolveManifestUnusable => (AnsweredWith("cache_invalid") /\ ~SelectionInvoked)
          /\ ~(ResolveManifestUnreadable \/ ResolveManifestUnusable)
             => /\ SelectionInvoked \/ task \in {"timeout", "panic"}
                /\ AnsweredWithSelection \/ AnsweredWith("internal_error")

\* no worker is started for a call whose budget or cache path is rejected
WorkerOnlyAfterChecks ==
    pc = "await"
    => /\ Sent.params.arguments.budget.n >= 0
       /\ ResolverResult("context.resolve").ok

\* C35 as stated: in context.resolve the checks are applied in the order
\* budget, name and path, manifest, selection; the first that fails alone
\* determines the outcome, no later step runs, and no worker is started
\* when the budget or the path is rejected.
C35_FirstFailingCheckDecides ==
    /\ CallsTool("context.resolve") => FirstFailingCheckDecides
    /\ WorkerOnlyAfterChecks

\* C35 as amended: the same, for the calls that start no worker and for
\* those whose worker returns before the timer; a call that times out or
\* whose worker panics is answered internal_error whatever the manifest.
C35_FirstFailingCheckDecidesUnlessTimeout ==
    /\ (CallsTool("context.resolve") /\ task \notin {"timeout", "panic"})
       => FirstFailingCheckDecides
    /\ WorkerOnlyAfterChecks

\* the selection fails in a call whose budget, path and manifest passed
C35_Witness ==
    /\ CallsTool("context.resolve")
    /\ task = "returned"
    /\ CallBudget >= 0
    /\ ResolverResult("context.resolve").ok
    /\ ~(ResolveManifestUnreadable \/ ResolveManifestUnusable)
    /\ SelectionInvoked
    /\ AnsweredWith("internal_error")

\* a call that timed out although the manifest of its cache is missing
C35_TimeoutHidesManifest ==
    /\ CallsTool("context.resolve")
    /\ task = "timeout"
    /\ ResolveManifestUnusable
    /\ AnsweredWith("internal_error")

---------------------------------------------------------------------------
(* Abandoned workers *)

\* the lines of output caused by frame k
LinesOf(k) == {i \in 1..Len(stdout) : stdout[i].frame = k}

\* the frame, received in Ready, is a tools/call of context.resolve, and
\* this iteration has its response
ResolveCallHandled ==
    /\ ToolCallDeserializes
    /\ ToolName = "context.resolve"

\* C36: a worker abandoned after a timeout ends without any other effect:
\* nothing is written, and neither the response in preparation nor anything
\* a later iteration reads is changed. No frame causes more than one line
\* of output, and the iteration of a context.resolve request that ends has
\* written exactly one. A worker is started only when none that has not
\* been abandoned exists, and no frame is read while there is one.
C36_AbandonedWorkerHasNoEffect ==
    /\ [](\A k \in 1..MaxFrames : Cardinality(LinesOf(k)) <= 1)
    /\ [][abandoned' < abandoned
          => UNCHANGED <<initialized, config, fs, pc, raw, req, resp, obs, stdout, frames,
                         afterInit, exit, fatal, task>>]_vars
    /\ [][(ResolveCallHandled /\ pc' = "read")
          => /\ stdout' = Append(stdout, Line(frames, resp.v))
             /\ Cardinality(LinesOf(frames)') = 1]_vars
    /\ [][(task' = "running" /\ task # "running") => (pc = "read" /\ task = "none")]_vars
    /\ [][task = "running" => frames' = frames]_vars

\* a context.resolve call whose worker runs while the worker of an earlier
\* call, which timed out and was answered, is still running
C36_Witness ==
    /\ pc = "await"
    /\ task = "running"
    /\ abandoned = 1
    /\ Len(stdout) = 2
    /\ stdout[2].frame = frames - 1

---------------------------------------------------------------------------
(* context.resolve: the race between the worker and the timer *)

\* what load_and_select returns for the call of this iteration when the
\* selection capability succeeds (`selected`) or fails, as a tool result
WorkerOutcome(selected) ==
    LET Converted(w) == IF w.ok THEN ToolText(w.text) ELSE McpToToolResult(w.err)
    IN  Converted(load_and_select(fs, ResolverResult("context.resolve").path,
                                  Sent.params.arguments.query.s, Sent.params.arguments.budget.n,
                                  [race |-> "returned", select |-> selected, order |-> <<>>]))

\* C37: in context.resolve, when the worker returns before the timer
\* fires, the response carries what the worker returned (the selection
\* text, or the domain error of the manifest or of the selection); the
\* timeout arm is taken only while the handler still waits for the worker,
\* which is then left running.
C37_WorkerResultWinsTheRace ==
    /\ [][(task = "running" /\ task' = "returned")
          => /\ pc' = "respond"
             /\ \E selected \in BOOLEAN : resp' = Some(success(req.id, WorkerOutcome(selected)))
             /\ UNCHANGED abandoned]_vars
    /\ [][task' = "timeout" /\ task # "timeout"
          => /\ pc = "await"
             /\ task = "running"
             /\ abandoned' = abandoned + 1]_vars

\* the worker returned first, with the error of a manifest that is not JSON
C37_Witness ==
    /\ CallsTool("context.resolve")
    /\ task = "returned"
    /\ ManifestOpened("context.resolve").ok
    /\ ~ManifestData("context.resolve").json
    /\ AnsweredWith("cache_invalid")
    /\ resp = Some(success(req.id, WorkerOutcome(TRUE)))

---------------------------------------------------------------------------
(* initialize, again *)

\* the frame is an `initialize` request with jsonrpc "2.0", and this
\* iteration has handled it
InitializeHandled ==
    /\ pc = "respond"
    /\ IsRequestFrame
    /\ Sent.jsonrpc = "2.0"
    /\ Sent.method = "initialize"

\* C38: an `initialize` request is dispatched in state Ready as it is in
\* state Uninitialized and answered with the same payload (protocol
\* version, capabilities, server name and version) under its own id; the
\* iteration that handled it in Ready ends in Ready.
C38_InitializeIsIdempotent ==
    /\ [](InitializeHandled
          => /\ obs.route = "dispatch"
             /\ obs.branch = "initialize"
             /\ resp = Some(success(Sent.id, InitializeResult)))
    /\ [][(InitializeHandled /\ initialized) => initialized']_vars
    /\ [][(InitializeHandled /\ pc' = "read") => (initialized' /\ afterInit')]_vars

\* a second `initialize`, handled in Ready after the first was answered
C38_Witness ==
    /\ InitializeHandled
    /\ initialized
    /\ Len(stdout) >= 1
    /\ resp.v.result.v = InitializeResult

---------------------------------------------------------------------------
(* The two path resolvers *)

\* what a caller of a resolver can tell of its result: the directory, or
\* the kind of the domain error
ResolverVerdict(r) ==
    IF r.ok THEN [ok |-> TRUE, path |-> r.path, code |-> "none"]
    ELSE [ok |-> FALSE, path |-> <<>>, code |-> r.err.error.code]

\* the handler of this call acted on the result r of its resolver
HandlerFollows(r) ==
    /\ Len(obs.ops) >= Len(r.ops)
    /\ SubSeq(obs.ops, 1, Len(r.ops)) = r.ops
    /\ ~r.ok => resp = Some(success(Sent.id, McpToToolResult(r.err)))

\* C39: for the cache root, the filesystem and the cache name of every call
\* in which a path resolver runs, the resolver of context.resolve and the
\* resolver of context.inspect_cache return the same directory or the same
\* kind of domain error, and the tool called acts on that result.
C39_ResolversAreEquivalent ==
    \A tool \in {"context.inspect_cache", "context.resolve"} :
        ResolverRuns(tool)
        => LET Same(r, i) ==
                   /\ ResolverVerdict(r) = ResolverVerdict(i)
                   /\ HandlerFollows(IF tool = "context.resolve" THEN r ELSE i)
           IN  Same(resolve_cache_path(fs, config.cache_root, CallName),
                    inspect_resolve_cache_path(fs, config.cache_root, CallName))

\* a name that both resolvers accept, under a root that is a symlink: the
\* directory returned is the canonical one
C39_Witness ==
    /\ ResolverRuns("context.inspect_cache")
    /\ config.cache_root = <<S>>
    /\ CallName = <<"a">>
    /\ ResolverVerdict(resolve_cache_path(fs, config.cache_root, CallName))
       = [ok |-> TRUE, path |-> <<R, A>>, code |-> "none"]
    /\ ResolverVerdict(inspect_resolve_cache_path(fs, config.cache_root, CallName))
       = [ok |-> TRUE, path |-> <<R, A>>, code |-> "none"]
    /\ ~ToolResultSent.isError

====
